---------------------------- MODULE Spec2Model ----------------------------
(***************************************************************************)
(* A state-machine model of the combat core of the arena game: Enemy and   *)
(* EnemyManager (enemy.js), Projectile and WeaponSystem (projectile.js),   *)
(* and World.canMoveTo (world.js).                                         *)
(*                                                                         *)
(* Number representation.  The program computes on IEEE doubles; the model *)
(* computes on integers in fixed units:                                    *)
(*   - a length or a coordinate is in centi-pixels (POS_ONE per pixel);    *)
(*   - a time is in milliseconds, as the program's deltaTime;              *)
(*   - a component of a direction vector is in 1/DIR_ONE;                  *)
(*   - a degree value (rotationAngle, spreadAngle) is in centi-degrees;    *)
(*   - a radian value is in units of pi/HALF_TURN (half a degree), the     *)
(*     resolution of the sine table.                                       *)
(* Every speed of the program is a multiple of 10 px/s, so speed*dt/1000   *)
(* is a whole number of centi-pixels for every whole dt.                   *)
(***************************************************************************)
EXTENDS Integers, Sequences, FiniteSets, TLC

VARIABLES
    obstacles,    \* World.tiles: the interior tiles that are walls
    player,       \* Player (the weapon's owner), without its weapon system
    enemies,      \* EnemyManager.enemies: sequence of Enemy records
    spawnTimer,   \* EnemyManager.spawnTimer (ms)
    projectiles,  \* WeaponSystem.projectiles: sequence of Projectile records
    weapon,       \* the other fields of WeaponSystem
    keyLatch,     \* Game.patternKeyPressed and Game.upgradeKeyPressed
    nextId,       \* identity of the next object created by `new`
    hits,         \* history: the takeDamage calls made so far, <<projectile, enemy>> |-> count
    last,         \* history: what the last operation did
    steps         \* history: number of operations so far

vars == <<obstacles, player, enemies, spawnTimer, projectiles, weapon,
          keyLatch, nextId, hits, last, steps>>

-----------------------------------------------------------------------------
(* Units *)

POS_ONE == 100
DIR_ONE == 1000
HALF_TURN == 360

(* Program constants (config.js, and the literals of the classes) *)

TILE_SIZE == 32
WIDTH_TILES == 50
HEIGHT_TILES == 40
PLAYER_START_X == 400
PLAYER_START_Y == 300
PLAYER_SIZE == 24
PLAYER_SPEED == 150
PLAYER_MAX_HEALTH == 100
XP_PER_ENEMY == 10
XP_PER_LEVEL == 50
MAX_LEVEL == 10
LEVEL_UP_HEAL == 20
FIRE_RATE == 2
PROJECTILE_SPEED == 400
PROJECTILE_DAMAGE == 20
PROJECTILE_RANGE == 250
AUTO_TARGET_RANGE == 200
MULTI_SHOT_COUNT == 1
SPREAD_ANGLE == 15
HOMING_STRENGTH == 0
SPAWN_RATE == 3
MAX_ENEMIES == 15
ENEMY_SPEED == 60
ENEMY_HEALTH == 40
SPAWN_DISTANCE_MIN == 150
SPAWN_DISTANCE_MAX == 300
ENEMY_SIZE == 20
RETARGET_INTERVAL == 2000
STOP_DISTANCE == 5
PROJECTILE_RADIUS == 3
MAX_ATTEMPTS == 50
ROTATION_RATE == 90
SPIRAL_STEP == 60

-----------------------------------------------------------------------------
(* Arithmetic of the number representation *)

Abs(n) == IF n < 0 THEN -n ELSE n

Max(a, b) == IF a >= b THEN a ELSE b

Min(a, b) == IF a <= b THEN a ELSE b

\* n/d rounded to the nearest integer (d > 0), halves rounded up.
Round(n, d) == (2 * n + d) \div (2 * d)

\* The least integer >= n/d (d > 0).
CeilDiv(n, d) == -((-n) \div d)

RECURSIVE SqrtSearch(_, _, _)
SqrtSearch(n, lo, hi) ==
    IF lo >= hi THEN lo
    ELSE LET mid == (lo + hi + 1) \div 2
         IN  IF mid * mid <= n THEN SqrtSearch(n, mid, hi)
             ELSE SqrtSearch(n, lo, mid - 1)

\* Math.sqrt on a non-negative integer, rounded down.
Sqrt(n) == SqrtSearch(n, 0, Min(n, 46340))

\* Math.sqrt(dx*dx + dy*dy).  Components too large to square in 32 bits are
\* scaled down first; the result is then exact to the scale factor.
Hypot(dx, dy) ==
    LET m == Max(Abs(dx), Abs(dy))
        k == IF m <= 30000 THEN 1 ELSE (m \div 30000) + 1
    IN  k * Sqrt((dx \div k) * (dx \div k) + (dy \div k) * (dy \div k))

\* The vector (dx, dy) divided by its length, in 1/DIR_ONE.  The vector is
\* brought into a range where the integer square root is precise.
UnitVector(dx, dy) ==
    LET m  == Max(Abs(dx), Abs(dy))
        up == IF m < 3000 THEN 10000 \div m ELSE 1
        dn == IF m > 30000 THEN (m \div 30000) + 1 ELSE 1
        sx == (dx * up) \div dn
        sy == (dy * up) \div dn
        len == Sqrt(sx * sx + sy * sy)
    IN  [x |-> Round(sx * DIR_ONE, len), y |-> Round(sy * DIR_ONE, len)]

\* sin of i half-degrees, i in 0..180, in 1/DIR_ONE.
SinTable == <<
    0, 9, 17, 26, 35, 44, 52, 61, 70, 78, 87, 96,
    105, 113, 122, 131, 139, 148, 156, 165, 174, 182, 191, 199,
    208, 216, 225, 233, 242, 250, 259, 267, 276, 284, 292, 301,
    309, 317, 326, 334, 342, 350, 358, 367, 375, 383, 391, 399,
    407, 415, 423, 431, 438, 446, 454, 462, 469, 477, 485, 492,
    500, 508, 515, 522, 530, 537, 545, 552, 559, 566, 574, 581,
    588, 595, 602, 609, 616, 623, 629, 636, 643, 649, 656, 663,
    669, 676, 682, 688, 695, 701, 707, 713, 719, 725, 731, 737,
    743, 749, 755, 760, 766, 772, 777, 783, 788, 793, 799, 804,
    809, 814, 819, 824, 829, 834, 839, 843, 848, 853, 857, 862,
    866, 870, 875, 879, 883, 887, 891, 895, 899, 903, 906, 910,
    914, 917, 921, 924, 927, 930, 934, 937, 940, 943, 946, 948,
    951, 954, 956, 959, 961, 964, 966, 968, 970, 972, 974, 976,
    978, 980, 982, 983, 985, 986, 988, 989, 990, 991, 993, 994,
    995, 995, 996, 997, 998, 998, 999, 999, 999, 1000, 1000, 1000,
    1000 >>

\* Math.sin of a radian value (units of pi/HALF_TURN): the table entry of
\* the angle folded into the first quadrant, negated in the lower half turn.
Sin(r) ==
    LET a == r % (2 * HALF_TURN)
        folded == IF a <= HALF_TURN \div 2 THEN a
                  ELSE IF a <= HALF_TURN THEN HALF_TURN - a
                  ELSE IF a <= HALF_TURN + HALF_TURN \div 2 THEN a - HALF_TURN
                  ELSE 2 * HALF_TURN - a
    IN  (IF a <= HALF_TURN THEN 1 ELSE -1) * SinTable[folded + 1]

\* Math.cos of a radian value.
Cos(r) == Sin(r + HALF_TURN \div 2)

\* How far the direction of radian value i is from that of (ax, ay), as the
\* absolute cross product.
AngleError(ax, ay, i) == Abs(Sin(i) * ax - Cos(i) * ay)

RECURSIVE AngleSearch(_, _, _, _)
\* The largest i in lo..hi with sin(i)/cos(i) <= ay/ax (the tangent grows with i).
AngleSearch(ax, ay, lo, hi) ==
    IF lo >= hi THEN lo
    ELSE LET mid == (lo + hi + 1) \div 2
         IN  IF Sin(mid) * ax <= Cos(mid) * ay THEN AngleSearch(ax, ay, mid, hi)
             ELSE AngleSearch(ax, ay, lo, mid - 1)

\* Of i and its successor in the first quadrant, the one nearer to (ax, ay).
NearerAngle(ax, ay, i) ==
    IF i < HALF_TURN \div 2 /\ AngleError(ax, ay, i + 1) < AngleError(ax, ay, i)
    THEN i + 1 ELSE i

\* The first-quadrant angle q carried into the quadrant of the vector u.
InQuadrant(u, q) ==
    IF u.x >= 0 /\ u.y >= 0 THEN q
    ELSE IF u.x < 0 /\ u.y >= 0 THEN HALF_TURN - q
    ELSE IF u.x < 0 /\ u.y < 0 THEN q - HALF_TURN
    ELSE -q

\* The radian value of the unit vector u.
UnitAngle(u) ==
    InQuadrant(u, NearerAngle(Abs(u.x), Abs(u.y),
                              AngleSearch(Abs(u.x), Abs(u.y), 0, HALF_TURN \div 2)))

\* Math.atan2(dy, dx): the radian value in -HALF_TURN+1..HALF_TURN whose
\* direction is nearest to that of (dx, dy); 0 for the zero vector.
Atan2(dy, dx) == IF dx = 0 /\ dy = 0 THEN 0 ELSE UnitAngle(UnitVector(dx, dy))

\* degrees * Math.PI / 180: centi-degrees to radian units.
DegToRad(cdeg) == Round(cdeg * HALF_TURN, 18000)

-----------------------------------------------------------------------------
(* World (world.js) *)

\* this.tiles[ty][tx] === TILE_TYPES.WALL, for a tile inside the grid:
\* generateWorld makes the border wall and each interior tile wall at random.
TileIsWall(tx, ty) ==
    \/ tx = 0 \/ tx = WIDTH_TILES - 1 \/ ty = 0 \/ ty = HEIGHT_TILES - 1
    \/ <<tx, ty>> \in obstacles

CanMoveToNoRightBound(x, y, width, height) ==
    LET tileSize == TILE_SIZE * POS_ONE
        left   == (x - width \div 2) \div tileSize
        right  == (x + width \div 2) \div tileSize
        top    == (y - height \div 2) \div tileSize
        bottom == (y + height \div 2) \div tileSize
    IN  IF left < 0 \/ top < 0 \/ bottom >= HEIGHT_TILES
        THEN FALSE
        ELSE \A ty \in top..bottom : \A tx \in left..right : ~TileIsWall(tx, ty)

\* World.canMoveTo(x, y, width, height), all four in centi-pixels.
CanMoveTo(x, y, width, height) ==
    LET tileSize == TILE_SIZE * POS_ONE
        left   == (x - width \div 2) \div tileSize
        right  == (x + width \div 2) \div tileSize
        top    == (y - height \div 2) \div tileSize
        bottom == (y + height \div 2) \div tileSize
    IN  IF left < 0 \/ right >= WIDTH_TILES \/ top < 0 \/ bottom >= HEIGHT_TILES
        THEN FALSE
        ELSE \A ty \in top..bottom : \A tx \in left..right : ~TileIsWall(tx, ty)

\* The tiles whose entry of this.tiles a call canMoveTo(x, y, width, height)
\* may read: none when the bounds check returns, else those of the two loops.
TilesRead(x, y, width, height) ==
    LET tileSize == TILE_SIZE * POS_ONE
        left   == (x - width \div 2) \div tileSize
        right  == (x + width \div 2) \div tileSize
        top    == (y - height \div 2) \div tileSize
        bottom == (y + height \div 2) \div tileSize
    IN  IF left < 0 \/ right >= WIDTH_TILES \/ top < 0 \/ bottom >= HEIGHT_TILES
        THEN {}
        ELSE (left..right) \X (top..bottom)

-----------------------------------------------------------------------------
(* Enemy (enemy.js) *)

\* new Enemy(x, y); id stands for the object's identity.
NewEnemy(id, x, y) ==
    [id |-> id, x |-> x, y |-> y, health |-> ENEMY_HEALTH, active |-> TRUE,
     targetX |-> x, targetY |-> y, retargetTimer |-> 0]

RetargetedCarry(e, timer, pl, jit) ==
    IF timer >= RETARGET_INTERVAL
    THEN IF Hypot(pl.x - e.x, pl.y - e.y) > 0
         THEN [e EXCEPT !.targetX = pl.x + jit.x, !.targetY = pl.y + jit.y,
                        !.retargetTimer = timer - RETARGET_INTERVAL]
         ELSE [e EXCEPT !.retargetTimer = timer - RETARGET_INTERVAL]
    ELSE [e EXCEPT !.retargetTimer = timer]

\* Lines 36-47 of Enemy.update: the retarget timer, and the new target near
\* the player when it runs out; jit holds the two offsets
\* (Math.random() - 0.5) * 50 drawn then.
Retargeted(e, timer, pl, jit) ==
    IF timer >= RETARGET_INTERVAL
    THEN IF Hypot(pl.x - e.x, pl.y - e.y) > 0
         THEN [e EXCEPT !.targetX = pl.x + jit.x, !.targetY = pl.y + jit.y,
                        !.retargetTimer = 0]
         ELSE [e EXCEPT !.retargetTimer = 0]
    ELSE [e EXCEPT !.retargetTimer = timer]

SlideYFromOldX(e, x2, newY) ==
    IF CanMoveTo(e.x, newY, ENEMY_SIZE * POS_ONE, ENEMY_SIZE * POS_ONE)
    THEN [e EXCEPT !.x = x2, !.y = newY]
    ELSE [e EXCEPT !.x = x2]

\* Lines 67-74: the x move is tried first, the y move from where it ended.
SlideY(e, x2, newY) ==
    IF CanMoveTo(x2, newY, ENEMY_SIZE * POS_ONE, ENEMY_SIZE * POS_ONE)
    THEN [e EXCEPT !.x = x2, !.y = newY]
    ELSE [e EXCEPT !.x = x2]

SlideXUntested(e, newX, newY) == SlideY(e, newX, newY)

SlideX(e, newX, newY) ==
    IF CanMoveTo(newX, e.y, ENEMY_SIZE * POS_ONE, ENEMY_SIZE * POS_ONE)
    THEN SlideY(e, newX, newY)
    ELSE SlideY(e, e.x, newY)

\* Lines 62-66: the step of moveDistance along the unit vector dir.
StepAlong(e, dir, moveDistance) ==
    SlideX(e, e.x + Round(dir.x * moveDistance, DIR_ONE),
              e.y + Round(dir.y * moveDistance, DIR_ONE))

\* Lines 50-75: move towards the target unless within the stop distance.
MoveToTarget(e, dt) ==
    IF Hypot(e.targetX - e.x, e.targetY - e.y) > STOP_DISTANCE * POS_ONE
    THEN StepAlong(e, UnitVector(e.targetX - e.x, e.targetY - e.y),
                   (ENEMY_SPEED * dt * POS_ONE) \div 1000)
    ELSE e

\* Enemy.update(deltaTime, player, world)
EnemyUpdate(e, dt, pl, jit) ==
    IF ~e.active THEN e
    ELSE MoveToTarget(Retargeted(e, e.retargetTimer + dt, pl, jit), dt)

TakeDamageOverwrite(e, damage) ==
    LET h == ENEMY_HEALTH - damage
    IN  [e EXCEPT !.health = h, !.active = IF h <= 0 THEN FALSE ELSE @]

TakeDamageBoundary(e, damage) ==
    LET h == e.health - damage
    IN  [e EXCEPT !.health = h, !.active = IF h < 0 THEN FALSE ELSE @]

\* Enemy.takeDamage(damage)
TakeDamage(e, damage) ==
    LET h == e.health - damage
    IN  [e EXCEPT !.health = h, !.active = IF h <= 0 THEN FALSE ELSE @]

\* Enemy.getBounds()
EnemyBounds(e) ==
    [x |-> e.x - (ENEMY_SIZE * POS_ONE) \div 2, y |-> e.y - (ENEMY_SIZE * POS_ONE) \div 2,
     width |-> ENEMY_SIZE * POS_ONE, height |-> ENEMY_SIZE * POS_ONE]

\* Projectile.getBounds()
ProjectileBounds(p) ==
    [x |-> p.x - PROJECTILE_RADIUS * POS_ONE, y |-> p.y - PROJECTILE_RADIUS * POS_ONE,
     width |-> PROJECTILE_RADIUS * 2 * POS_ONE, height |-> PROJECTILE_RADIUS * 2 * POS_ONE]

\* rectanglesIntersect(a, b) of utils.js: axis-aligned rectangle intersection.
RectanglesIntersect(a, b) ==
    /\ a.x < b.x + b.width
    /\ a.x + a.width > b.x
    /\ a.y < b.y + b.height
    /\ a.y + a.height > b.y

\* Enemy.checkProjectileCollision(projectile)
CheckProjectileCollision(e, p) ==
    IF ~e.active \/ ~p.active THEN FALSE
    ELSE RectanglesIntersect(EnemyBounds(e), ProjectileBounds(p))

-----------------------------------------------------------------------------
(* Projectile (projectile.js) *)

\* new Projectile(x, y, directionX, directionY, damage, piercing, homing);
\* targetEnemy is an enemy's identity, 0 for null.
NewProjectile(id, x, y, dirX, dirY, damage, piercing, homing) ==
    [id |-> id, x |-> x, y |-> y, directionX |-> dirX, directionY |-> dirY,
     damage |-> damage, distanceTraveled |-> 0, active |-> TRUE,
     piercing |-> piercing, hitEnemies |-> {}, homing |-> homing, targetEnemy |-> 0]

RECURSIVE NearestFrom(_, _, _, _, _)
\* The loop of Projectile.findNearestEnemy from index i on: the identity of the
\* nearest active enemy, the first one met winning ties; best = 0 is null,
\* bestDist = -1 is Infinity.
NearestFrom(p, ens, i, best, bestDist) ==
    IF i > Len(ens) THEN best
    ELSE LET e == ens[i]
             d == Hypot(e.x - p.x, e.y - p.y)
         IN  IF ~e.active THEN NearestFrom(p, ens, i + 1, best, bestDist)
             ELSE IF bestDist < 0 \/ d < bestDist
                  THEN NearestFrom(p, ens, i + 1, e.id, d)
                  ELSE NearestFrom(p, ens, i + 1, best, bestDist)

\* Projectile.findNearestEnemy(enemies)
FindNearestEnemy(p, ens) == NearestFrom(p, ens, 1, 0, -1)

\* The enemy objects with identity id among ens (at most one).
EnemyById(ens, id) == {ens[i] : i \in {j \in 1..Len(ens) : ens[j].id = id}}

\* this.targetEnemy && this.targetEnemy.active: an enemy no longer in the
\* manager's list was removed from it when inactive, and stays so.
TargetIsActive(p, all) ==
    p.targetEnemy # 0 /\ \E e \in EnemyById(all, p.targetEnemy) : e.active

RetargetAlways(p, ens, all) == [p EXCEPT !.targetEnemy = FindNearestEnemy(p, ens)]

\* Lines 36-38 of Projectile.update: a projectile without a live target takes
\* the nearest active enemy of the list it is given.
Retarget(p, ens, all) ==
    IF ~TargetIsActive(p, all)
    THEN [p EXCEPT !.targetEnemy = FindNearestEnemy(p, ens)]
    ELSE p

BlendDirectionRaw(p, td) ==
    [p EXCEPT !.directionX = Round(p.directionX * (10 - p.homing) + td.x * p.homing, 10),
              !.directionY = Round(p.directionY * (10 - p.homing) + td.y * p.homing, 10)]

\* Lines 51-60: blend the direction with the unit vector td towards the
\* target by the homing strength (tenths), then renormalise.
BlendDirection(p, td) ==
    LET bx == Round(p.directionX * (10 - p.homing) + td.x * p.homing, 10)
        by == Round(p.directionY * (10 - p.homing) + td.y * p.homing, 10)
    IN  \* dirLength > 0
        IF Hypot(bx, by) > 0
        THEN [p EXCEPT !.directionX = UnitVector(bx, by).x,
                       !.directionY = UnitVector(bx, by).y]
        ELSE [p EXCEPT !.directionX = bx, !.directionY = by]

\* Lines 42-61: steer towards the target t unless the projectile is on it.
SteerTowards(p, t) ==
    IF Hypot(t.x - p.x, t.y - p.y) > 0
    THEN BlendDirection(p, UnitVector(t.x - p.x, t.y - p.y))
    ELSE p

\* Line 41: if (this.targetEnemy && this.targetEnemy.active)
SteerIfTargeted(p, all) ==
    IF TargetIsActive(p, all)
    THEN SteerTowards(p, CHOOSE e \in EnemyById(all, p.targetEnemy) : TRUE)
    ELSE p

\* The homing block of Projectile.update: ens is the list passed to update,
\* all are the enemy objects of the manager.  homing is in tenths.
Homing(p, ens, all) ==
    IF p.homing > 0 /\ Len(ens) > 0
    THEN SteerIfTargeted(Retarget(p, ens, all), all)
    ELSE p

ProjectileMoveDistanceWholeSeconds(dt) == PROJECTILE_SPEED * (dt \div 1000) * POS_ONE

\* this.speed * (deltaTime / 1000), in centi-pixels.
ProjectileMoveDistance(dt) == (PROJECTILE_SPEED * dt * POS_ONE) \div 1000

\* Lines 64-69: the translation along the direction and the distance count.
Advance(p, moveDistance) ==
    [p EXCEPT !.x = @ + Round(p.directionX * moveDistance, DIR_ONE),
              !.y = @ + Round(p.directionY * moveDistance, DIR_ONE),
              !.distanceTraveled = @ + moveDistance]

RangeReachedLate(distanceTraveled) == distanceTraveled > PROJECTILE_RANGE * POS_ONE

\* this.distanceTraveled >= this.range
RangeReached(distanceTraveled) == distanceTraveled >= PROJECTILE_RANGE * POS_ONE

\* Lines 72-80: the range check, then the wall check.
Deactivation(p) ==
    IF RangeReached(p.distanceTraveled)
    THEN [p EXCEPT !.active = FALSE]
    ELSE IF ~CanMoveTo(p.x, p.y, PROJECTILE_RADIUS * 2 * POS_ONE,
                       PROJECTILE_RADIUS * 2 * POS_ONE)
         THEN [p EXCEPT !.active = FALSE]
         ELSE p

ProjectileUpdateAlways(p, dt, ens, all) ==
    Deactivation(Advance(Homing(p, ens, all), ProjectileMoveDistance(dt)))

\* Projectile.update(deltaTime, world, enemies)
ProjectileUpdate(p, dt, ens, all) ==
    IF ~p.active THEN p
    ELSE Deactivation(Advance(Homing(p, ens, all), ProjectileMoveDistance(dt)))

-----------------------------------------------------------------------------
(* WeaponSystem (projectile.js) *)

\* new WeaponSystem(owner).  fireRate is kept in half shots per second (every
\* change of it is by 0.5), homing in tenths, angles in centi-degrees.
NewWeapon ==
    [fireRate2 |-> FIRE_RATE * 2, timeSinceLastShot |-> 0,
     autoTargetRange |-> AUTO_TARGET_RANGE * POS_ONE, level |-> 1,
     multiShotCount |-> MULTI_SHOT_COUNT, spreadAngle |-> SPREAD_ANGLE * 100,
     piercing |-> FALSE, homing |-> HOMING_STRENGTH * 10,
     damage |-> PROJECTILE_DAMAGE, firingPattern |-> "nearest", rotationAngle |-> 0]

\* The cycle of upgrade('pattern').
Patterns == <<"nearest", "spread", "spiral", "rotating">>

\* The distance of enemy e to the owner, as findNearestEnemies computes it.
OwnerDistance(e, owner) == Hypot(e.x - owner.x, e.y - owner.y)

RECURSIVE InsertSorted(_, _, _)
\* item put into the distance-sorted sequence, after every element that is
\* not farther (Array.prototype.sort is stable).
InsertSorted(sorted, item, owner) ==
    IF sorted = <<>> THEN <<item>>
    ELSE IF OwnerDistance(item, owner) < OwnerDistance(Head(sorted), owner)
         THEN <<item>> \o sorted
         ELSE <<Head(sorted)>> \o InsertSorted(Tail(sorted), item, owner)

SortByDistanceUnsorted(seq, owner) == seq

RECURSIVE SortByDistance(_, _)
\* inRange.sort((a, b) => a.distance - b.distance)
SortByDistance(seq, owner) ==
    IF seq = <<>> THEN <<>>
    ELSE InsertSorted(SortByDistance(SubSeq(seq, 1, Len(seq) - 1), owner),
                      seq[Len(seq)], owner)

FindNearestEnemiesNoRange(w, owner, ens, count) ==
    LET activeEnemies == SelectSeq(ens, LAMBDA e : e.active)
        sorted == SortByDistance(activeEnemies, owner)
    IN  SubSeq(sorted, 1, Min(count, Len(sorted)))

\* WeaponSystem.findNearestEnemies(enemies, count)
FindNearestEnemies(w, owner, ens, count) ==
    LET activeEnemies == SelectSeq(ens, LAMBDA e : e.active)
        inRange == SelectSeq(activeEnemies,
                             LAMBDA e : OwnerDistance(e, owner) <= w.autoTargetRange)
        sorted == SortByDistance(inRange, owner)
    IN  SubSeq(sorted, 1, Min(count, Len(sorted)))

\* The direction at radian value angle: {x: Math.cos(angle), y: Math.sin(angle)}.
DirectionAt(angle) == [x |-> Cos(angle), y |-> Sin(angle)]

SpreadLoopOneShort(w, startAngle, angleStep) ==
    [i \in 1..(w.multiShotCount - 1) |-> DirectionAt(startAngle + angleStep * (i - 1))]

\* The loop of calculateSpreadPattern: for (i = 0; i < multiShotCount; i++).
SpreadLoop(w, startAngle, angleStep) ==
    [i \in 1..w.multiShotCount |-> DirectionAt(startAngle + angleStep * (i - 1))]

\* The aim at findNearestEnemies(enemies, 1)[0]: the angle to it, and the
\* initial baseAngle 0 when the list is empty (nearest is undefined).
AngleToFirst(nearest, owner) ==
    IF Len(nearest) > 0
    THEN Atan2(nearest[1].y - owner.y, nearest[1].x - owner.x)
    ELSE 0

\* baseAngle of calculateSpreadPattern(enemies)
SpreadBaseAngle(w, owner, ens) ==
    IF Len(ens) > 0
    THEN AngleToFirst(FindNearestEnemies(w, owner, ens, 1), owner)
    ELSE DegToRad(w.rotationAngle)

\* The spread of angleStep around baseAngle:
\* startAngle = baseAngle - (angleStep * (multiShotCount - 1)) / 2.
SpreadAround(w, baseAngle, angleStep) ==
    SpreadLoop(w, baseAngle - Round(angleStep * (w.multiShotCount - 1), 2), angleStep)

\* WeaponSystem.calculateSpreadPattern(enemies)
CalculateSpreadPattern(w, owner, ens) ==
    SpreadAround(w, SpreadBaseAngle(w, owner, ens), DegToRad(w.spreadAngle))

\* WeaponSystem.calculateSpiralPattern()
CalculateSpiralPattern(w) ==
    LET baseAngle == DegToRad(w.rotationAngle)
    IN  [i \in 1..w.multiShotCount |->
            DirectionAt(baseAngle + DegToRad((i - 1) * SPIRAL_STEP * 100))]

\* WeaponSystem.calculateRotatingPattern()
CalculateRotatingPattern(w) ==
    LET angleStep == DegToRad(Round(360 * 100, w.multiShotCount))
        baseAngle == DegToRad(w.rotationAngle)
    IN  [i \in 1..w.multiShotCount |-> DirectionAt(baseAngle + angleStep * (i - 1))]

RECURSIVE TargetDirections(_, _)
\* The loop of calculateNearestTargeting over the targets: a target at the
\* owner's own position (distance 0) yields no direction.
TargetDirections(targets, owner) ==
    IF targets = <<>> THEN <<>>
    ELSE LET dx == Head(targets).x - owner.x
             dy == Head(targets).y - owner.y
             rest == TargetDirections(Tail(targets), owner)
         IN  IF Hypot(dx, dy) > 0 THEN <<UnitVector(dx, dy)>> \o rest ELSE rest

\* The branch of calculateNearestTargeting on what findNearestEnemies found.
AimAt(w, owner, targets) ==
    IF Len(targets) = 0
    THEN CalculateSpreadPattern(w, owner, <<>>)
    ELSE TargetDirections(targets, owner)

\* WeaponSystem.calculateNearestTargeting(enemies)
CalculateNearestTargeting(w, owner, ens) ==
    AimAt(w, owner, FindNearestEnemies(w, owner, ens, w.multiShotCount))

\* WeaponSystem.calculateFiringDirections(enemies)
CalculateFiringDirections(w, owner, ens) ==
    CASE w.firingPattern = "nearest"  -> CalculateNearestTargeting(w, owner, ens)
      [] w.firingPattern = "spiral"   -> CalculateSpiralPattern(w)
      [] w.firingPattern = "spread"   -> CalculateSpreadPattern(w, owner, ens)
      [] w.firingPattern = "rotating" -> CalculateRotatingPattern(w)
      [] OTHER                        -> CalculateNearestTargeting(w, owner, ens)

ProjectilesAlongDefaults(w, owner, directions, firstId) ==
    [i \in 1..Len(directions) |->
        NewProjectile(firstId + i - 1, owner.x, owner.y, directions[i].x,
                      directions[i].y, PROJECTILE_DAMAGE, FALSE, 0)]

\* The loop of fire(enemies): one projectile per direction, from the owner's
\* position, the first of them with identity firstId.
ProjectilesAlong(w, owner, directions, firstId) ==
    [i \in 1..Len(directions) |->
        NewProjectile(firstId + i - 1, owner.x, owner.y, directions[i].x,
                      directions[i].y, w.damage, w.piercing, w.homing)]

\* WeaponSystem.fire(enemies): the projectiles it pushes.
Fire(w, owner, ens, firstId) ==
    ProjectilesAlong(w, owner, CalculateFiringDirections(w, owner, ens), firstId)

FireDueAfter(w, elapsed) == elapsed * w.fireRate2 > 2 * 1000

\* this.timeSinceLastShot >= 1 / this.fireRate, with the time in ms.
FireDue(w, elapsed) == elapsed * w.fireRate2 >= 2 * 1000

PatternIndexNoAdvance(pattern) ==
    IF \E i \in 1..Len(Patterns) : Patterns[i] = pattern
    THEN (CHOOSE i \in 1..Len(Patterns) : Patterns[i] = pattern) - 1
    ELSE 0

\* The position of pattern in Patterns, 0 when it is none of them (indexOf's -1).
PatternIndex(pattern) ==
    IF \E i \in 1..Len(Patterns) : Patterns[i] = pattern
    THEN CHOOSE i \in 1..Len(Patterns) : Patterns[i] = pattern
    ELSE 0

UpgradeLevelInCases(w, upgradeType) ==
    LET u == CASE upgradeType = "damage"    -> [w EXCEPT !.damage = @ + 5, !.level = @ + 1]
               [] upgradeType = "fireRate"  -> [w EXCEPT !.fireRate2 = @ + 1, !.level = @ + 1]
               [] upgradeType = "multiShot" -> [w EXCEPT !.multiShotCount = @ + 1, !.level = @ + 1]
               [] upgradeType = "piercing"  -> [w EXCEPT !.piercing = TRUE, !.level = @ + 1]
               [] upgradeType = "homing"    -> [w EXCEPT !.homing = Min(10, @ + 3), !.level = @ + 1]
               [] upgradeType = "range"     -> [w EXCEPT !.autoTargetRange = @ + 50 * POS_ONE,
                                                         !.level = @ + 1]
               [] upgradeType = "pattern"   ->
                    [w EXCEPT !.firingPattern =
                                  Patterns[(PatternIndex(@) % Len(Patterns)) + 1],
                              !.level = @ + 1]
               [] OTHER -> w
    IN  u

UpgradeFallThrough(w, upgradeType) ==
    LET u == CASE upgradeType = "damage"    -> [w EXCEPT !.damage = @ + 5, !.fireRate2 = @ + 1]
               [] upgradeType = "fireRate"  -> [w EXCEPT !.fireRate2 = @ + 1]
               [] upgradeType = "multiShot" -> [w EXCEPT !.multiShotCount = @ + 1]
               [] upgradeType = "piercing"  -> [w EXCEPT !.piercing = TRUE]
               [] upgradeType = "homing"    -> [w EXCEPT !.homing = Min(10, @ + 3)]
               [] upgradeType = "range"     -> [w EXCEPT !.autoTargetRange = @ + 50 * POS_ONE]
               [] upgradeType = "pattern"   ->
                    [w EXCEPT !.firingPattern =
                        Patterns[(PatternIndex(@) % Len(Patterns)) + 1]]
               [] OTHER -> w
    IN  [u EXCEPT !.level = @ + 1]

UpgradeHomingUncapped(w, upgradeType) ==
    LET u == CASE upgradeType = "damage"    -> [w EXCEPT !.damage = @ + 5]
               [] upgradeType = "fireRate"  -> [w EXCEPT !.fireRate2 = @ + 1]
               [] upgradeType = "multiShot" -> [w EXCEPT !.multiShotCount = @ + 1]
               [] upgradeType = "piercing"  -> [w EXCEPT !.piercing = TRUE]
               [] upgradeType = "homing"    -> [w EXCEPT !.homing = @ + 3]
               [] upgradeType = "range"     -> [w EXCEPT !.autoTargetRange = @ + 50 * POS_ONE]
               [] upgradeType = "pattern"   ->
                    [w EXCEPT !.firingPattern =
                        Patterns[(PatternIndex(@) % Len(Patterns)) + 1]]
               [] OTHER -> w
    IN  [u EXCEPT !.level = @ + 1]

\* WeaponSystem.upgrade(upgradeType)
Upgrade(w, upgradeType) ==
    LET u == CASE upgradeType = "damage"    -> [w EXCEPT !.damage = @ + 5]
               [] upgradeType = "fireRate"  -> [w EXCEPT !.fireRate2 = @ + 1]
               [] upgradeType = "multiShot" -> [w EXCEPT !.multiShotCount = @ + 1]
               [] upgradeType = "piercing"  -> [w EXCEPT !.piercing = TRUE]
               [] upgradeType = "homing"    -> [w EXCEPT !.homing = Min(10, @ + 3)]
               [] upgradeType = "range"     -> [w EXCEPT !.autoTargetRange = @ + 50 * POS_ONE]
               [] upgradeType = "pattern"   ->
                    [w EXCEPT !.firingPattern =
                        Patterns[(PatternIndex(@) % Len(Patterns)) + 1]]
               [] OTHER -> w
    IN  [u EXCEPT !.level = @ + 1]

\* WeaponSystem.getProjectiles()
GetProjectiles(projs) == SelectSeq(projs, LAMBDA p : p.active)

-----------------------------------------------------------------------------
(* EnemyManager (enemy.js) *)

GetEnemiesUnfiltered(ens) == ens

\* EnemyManager.getEnemies()
GetEnemies(ens) == SelectSeq(ens, LAMBDA e : e.active)

\* The candidate position of one attempt of spawnEnemy; draw holds the two
\* random numbers as the angle (radian units) and the distance (pixels).
SpawnCandidate(pl, draw) ==
    [x |-> pl.x + Round(Cos(draw.angle) * draw.distance * POS_ONE, DIR_ONE),
     y |-> pl.y + Round(Sin(draw.angle) * draw.distance * POS_ONE, DIR_ONE)]

RECURSIVE SpawnLoop(_, _, _, _, _)
\* The while loop of spawnEnemy from attempts on; draws[attempts + 1] is what
\* Math.random() yields in that attempt.  Returns the enemies and the number
\* of canMoveTo queries made.
SpawnLoop(ens, pl, draws, id, attempts) ==
    IF ~(attempts < MAX_ATTEMPTS) THEN [enemies |-> ens, queries |-> attempts]
    ELSE LET c == SpawnCandidate(pl, draws[attempts + 1])
         IN  IF CanMoveTo(c.x, c.y, ENEMY_SIZE * POS_ONE, ENEMY_SIZE * POS_ONE)
             THEN [enemies |-> Append(ens, NewEnemy(id, c.x, c.y)),
                   queries |-> attempts + 1]
             ELSE SpawnLoop(ens, pl, draws, id, attempts + 1)

\* EnemyManager.spawnEnemy(player, world)
SpawnEnemy(ens, pl, draws, id) == SpawnLoop(ens, pl, draws, id, 0)

SpawnDueIgnoringCap(ens, timer) == timer * SPAWN_RATE >= 1000

\* this.spawnTimer >= 1000 / this.spawnRate && this.enemies.length < this.maxEnemies
SpawnDue(ens, timer) == timer * SPAWN_RATE >= 1000 /\ Len(ens) < MAX_ENEMIES

AlreadyHitNever(p, e) == FALSE

\* projectile.hitEnemies.has(enemy)
AlreadyHit(p, e) == e.id \in p.hitEnemies

StopsAtHitNever(p) == FALSE

\* !projectile.piercing: the projectile is deactivated and its scan ends.
StopsAtHit(p) == ~p.piercing

RECURSIVE ScanEnemiesDeadToo(_, _, _, _)
ScanEnemiesDeadToo(p, ens, i, log) ==
    IF i > Len(ens) THEN [p |-> p, enemies |-> ens, log |-> log]
    ELSE
    LET e == ens[i]
        seen == Append(log, [kind |-> "scan", p |-> p.id, e |-> e.id, amount |-> 0])
    IN  IF AlreadyHit(p, e) \/ ~RectanglesIntersect(EnemyBounds(e), ProjectileBounds(p))
        THEN ScanEnemiesDeadToo(p, ens, i + 1, seen)
        ELSE LET ens2 == [ens EXCEPT ![i] = TakeDamage(e, p.damage)]
                 p2   == [p EXCEPT !.hitEnemies = @ \cup {e.id}]
                 log2 == Append(seen, [kind |-> "damage", p |-> p.id, e |-> e.id,
                                       amount |-> p.damage])
             IN  IF StopsAtHit(p)
                 THEN [p |-> [p2 EXCEPT !.active = FALSE], enemies |-> ens2, log |-> log2]
                 ELSE ScanEnemiesDeadToo(p2, ens2, i + 1, log2)

RECURSIVE ScanEnemies(_, _, _, _)
\* The inner loop of handleProjectileCollisions for projectile p, from the
\* i-th enemy on.  log records each enemy the loop reaches ("scan") and each
\* takeDamage call ("damage").
ScanEnemies(p, ens, i, log) ==
    IF i > Len(ens) THEN [p |-> p, enemies |-> ens, log |-> log]
    ELSE
    LET e == ens[i]
        seen == Append(log, [kind |-> "scan", p |-> p.id, e |-> e.id, amount |-> 0])
    IN  IF ~e.active THEN ScanEnemies(p, ens, i + 1, seen)
        ELSE IF AlreadyHit(p, e) THEN ScanEnemies(p, ens, i + 1, seen)
        ELSE IF CheckProjectileCollision(e, p)
        THEN LET ens2 == [ens EXCEPT ![i] = TakeDamage(e, p.damage)]
                 p2   == [p EXCEPT !.hitEnemies = @ \cup {e.id}]
                 log2 == Append(seen, [kind |-> "damage", p |-> p.id, e |-> e.id,
                                       amount |-> p.damage])
             IN  IF StopsAtHit(p)
                 THEN [p |-> [p2 EXCEPT !.active = FALSE], enemies |-> ens2, log |-> log2]
                 ELSE ScanEnemies(p2, ens2, i + 1, log2)
        ELSE ScanEnemies(p, ens, i + 1, seen)

RECURSIVE CollideFrom(_, _, _, _)
\* The outer loop of handleProjectileCollisions from the k-th projectile on.
CollideFrom(projs, ens, k, log) ==
    IF k > Len(projs) THEN [projectiles |-> projs, enemies |-> ens, log |-> log]
    ELSE IF ~projs[k].active THEN CollideFrom(projs, ens, k + 1, log)
    ELSE LET r == ScanEnemies(projs[k], ens, 1, log)
         IN  CollideFrom([projs EXCEPT ![k] = r.p], r.enemies, k + 1, r.log)

\* EnemyManager.handleProjectileCollisions(projectiles)
HandleProjectileCollisions(projs, ens) == CollideFrom(projs, ens, 1, <<>>)

\* The projectile objects of projs in the state the pass left them in: the
\* list handed to handleProjectileCollisions is a filtered copy of
\* WeaponSystem.projectiles that shares its objects.
WriteBack(projs, updated) ==
    [i \in 1..Len(projs) |->
        IF \E k \in 1..Len(updated) : updated[k].id = projs[i].id
        THEN updated[CHOOSE k \in 1..Len(updated) : updated[k].id = projs[i].id]
        ELSE projs[i]]

\* Lines 175-184 of EnemyManager.update: every enemy is updated and the
\* inactive ones are removed from the list.
UpdateAndPrune(ens, dt, pl, jit) ==
    SelectSeq([i \in 1..Len(ens) |-> EnemyUpdate(ens[i], dt, pl, jit)],
              LAMBDA e : e.active)

\* What EnemyManager.update leaves behind: sp is the outcome of the spawn
\* step, kept and passed the enemies and projectiles of the collision pass,
\* col its outcome.
ManagerOutcome(ens, projs, id, sp, kept, passed, col) ==
    [enemies     |-> col.enemies,
     spawnTimer  |-> sp.spawnTimer,
     projectiles |-> WriteBack(projs, col.projectiles),
     nextId      |-> id + (Len(sp.enemies) - Len(ens)),
     attempted   |-> sp.attempted,
     queries     |-> sp.queries,
     spawned     |-> Len(sp.enemies) - Len(ens),
     passEnemies |-> kept,
     passProjectiles |-> passed,
     log         |-> col.log]

\* Line 187: handleProjectileCollisions(player.weaponSystem.getProjectiles())
CollisionStep(ens, projs, id, sp, kept, passed) ==
    ManagerOutcome(ens, projs, id, sp, kept, passed,
                   HandleProjectileCollisions(passed, kept))

SpawnStepResetOnSuccess(ens, t1, spawned) ==
    IF SpawnDue(ens, t1)
    THEN [enemies |-> spawned.enemies, queries |-> spawned.queries,
          spawnTimer |-> IF Len(spawned.enemies) > Len(ens) THEN 0 ELSE t1,
          attempted |-> TRUE]
    ELSE [enemies |-> ens, queries |-> 0, spawnTimer |-> t1, attempted |-> FALSE]

\* Lines 170-173: the spawn attempt (spawned is what spawnEnemy returned) and
\* the timer reset that follows it.
SpawnStep(ens, t1, spawned) ==
    IF SpawnDue(ens, t1)
    THEN [enemies |-> spawned.enemies, queries |-> spawned.queries,
          spawnTimer |-> 0, attempted |-> TRUE]
    ELSE [enemies |-> ens, queries |-> 0, spawnTimer |-> t1, attempted |-> FALSE]

\* Lines 175-187 after the spawn step sp.
AfterSpawn(ens, projs, pl, dt, jit, id, sp) ==
    CollisionStep(ens, projs, id, sp, UpdateAndPrune(sp.enemies, dt, pl, jit),
                  GetProjectiles(projs))

\* EnemyManager.update(deltaTime, player, world).  draws are the random
\* numbers of spawnEnemy, jit those of the retargeting enemies, id the
\* identity of the enemy that may be created.
EnemyManagerUpdate(ens, timer, projs, pl, dt, draws, jit, id) ==
    AfterSpawn(ens, projs, pl, dt, jit, id,
               SpawnStep(ens, timer + dt, SpawnEnemy(ens, pl, draws, id)))

UpdateProjectilesFiredLast(w, projs, new, due, dt, ens, all, id) ==
    [weapon      |-> [w EXCEPT !.rotationAngle = @ + (ROTATION_RATE * 100 * dt) \div 1000],
     projectiles |-> SelectSeq([i \in 1..Len(projs) |->
                                   ProjectileUpdate(projs[i], dt, ens, all)],
                               LAMBDA p : p.active) \o new,
     nextId      |-> id + Len(new),
     fired       |-> Len(new),
     firedDue    |-> due]

\* Lines 191-203 of WeaponSystem.update: every projectile, those fired in
\* this call (new, when due) included, is updated and the inactive ones are removed;
\* then the rotation advances.
UpdateProjectiles(w, projs, new, due, dt, ens, all, id) ==
    [weapon      |-> [w EXCEPT !.rotationAngle = @ + (ROTATION_RATE * 100 * dt) \div 1000],
     projectiles |-> SelectSeq([i \in 1..(Len(projs) + Len(new)) |->
                                   ProjectileUpdate((projs \o new)[i], dt, ens, all)],
                               LAMBDA p : p.active),
     nextId      |-> id + Len(new),
     fired       |-> Len(new),
     firedDue    |-> due]

WeaponUpdateCatchUp(w, projs, owner, dt, ens, all, id) ==
    IF FireDue(w, w.timeSinceLastShot + dt)
    THEN UpdateProjectiles([w EXCEPT !.timeSinceLastShot = 0], projs,
                           IF FireDue(w, (w.timeSinceLastShot + dt) \div 2)
                           THEN Fire(w, owner, ens, id)
                                    \o Fire(w, owner, ens, id + w.multiShotCount)
                           ELSE Fire(w, owner, ens, id),
                           TRUE, dt, ens, all, id)
    ELSE UpdateProjectiles([w EXCEPT !.timeSinceLastShot = @ + dt], projs,
                           <<>>, FALSE, dt, ens, all, id)

\* WeaponSystem.update(deltaTime, world, enemies): ens is the list passed,
\* all the manager's enemy objects, id the identity of the first projectile
\* that may be created.
WeaponUpdate(w, projs, owner, dt, ens, all, id) ==
    IF FireDue(w, w.timeSinceLastShot + dt)
    THEN UpdateProjectiles([w EXCEPT !.timeSinceLastShot = 0], projs,
                           Fire(w, owner, ens, id), TRUE, dt, ens, all, id)
    ELSE UpdateProjectiles([w EXCEPT !.timeSinceLastShot = @ + dt], projs,
                           <<>>, FALSE, dt, ens, all, id)

-----------------------------------------------------------------------------
(* Player (player.js) and Game.update (main.js) *)

\* new Player(x, y), without its weapon system (the variable weapon).
NewPlayer ==
    [x |-> PLAYER_START_X * POS_ONE, y |-> PLAYER_START_Y * POS_ONE,
     health |-> PLAYER_MAX_HEALTH, experience |-> 0, level |-> 1, killCount |-> 0]

\* inputHandler.isKeyPressed(a) || inputHandler.isKeyPressed(b)
Pressed(keys, a, b) == a \in keys \/ b \in keys

PlayerSlideFromOldX(pl, newX, newY) ==
    [pl EXCEPT !.x = IF CanMoveTo(newX, pl.y, PLAYER_SIZE * POS_ONE, PLAYER_SIZE * POS_ONE)
                     THEN newX ELSE @,
               !.y = IF CanMoveTo(pl.x, newY, PLAYER_SIZE * POS_ONE, PLAYER_SIZE * POS_ONE)
                     THEN newY ELSE @]

\* Lines 139-145 of Player.update: the x move is tried first, the y move from
\* where it ended.
PlayerSlide(pl, newX, newY) ==
    LET x2 == IF CanMoveTo(newX, pl.y, PLAYER_SIZE * POS_ONE, PLAYER_SIZE * POS_ONE)
              THEN newX ELSE pl.x
    IN  [pl EXCEPT !.x = x2,
                   !.y = IF CanMoveTo(x2, newY, PLAYER_SIZE * POS_ONE, PLAYER_SIZE * POS_ONE)
                         THEN newY ELSE @]

\* The step of moveDistance in the directions of the keys held down.
PlayerStep(pl, keys, moveDistance) ==
    PlayerSlide(pl,
        pl.x - (IF Pressed(keys, "KeyA", "ArrowLeft") THEN moveDistance ELSE 0)
             + (IF Pressed(keys, "KeyD", "ArrowRight") THEN moveDistance ELSE 0),
        pl.y - (IF Pressed(keys, "KeyW", "ArrowUp") THEN moveDistance ELSE 0)
             + (IF Pressed(keys, "KeyS", "ArrowDown") THEN moveDistance ELSE 0))

\* The movement part of Player.update(deltaTime, inputHandler, world, enemies).
PlayerMove(pl, dt, keys) ==
    PlayerStep(pl, keys, (PLAYER_SPEED * dt * POS_ONE) \div 1000)

\* The upgrade types Player.levelUp draws from.
UpgradeTypes == <<"damage", "fireRate", "multiShot", "range", "homing", "piercing", "pattern">>

AddKillUncapped(pl, w, upDraw) ==
    LET xp == pl.experience + XP_PER_ENEMY
        requiredXP == pl.level * XP_PER_LEVEL
        counted == [pl EXCEPT !.killCount = @ + 1, !.experience = xp]
    IN  IF xp >= requiredXP
        THEN [player |-> [counted EXCEPT !.level = @ + 1, !.experience = 0,
                                         !.health = Min(PLAYER_MAX_HEALTH, @ + LEVEL_UP_HEAL)],
              weapon |-> Upgrade(w, upDraw)]
        ELSE [player |-> counted, weapon |-> w]

\* Player.addKill(), with gainExperience and levelUp; upDraw is the upgrade
\* type levelUp draws.  Returns the player and the weapon.
AddKill(pl, w, upDraw) ==
    LET xp == pl.experience + XP_PER_ENEMY
        requiredXP == pl.level * XP_PER_LEVEL
        counted == [pl EXCEPT !.killCount = @ + 1, !.experience = xp]
    IN  IF xp >= requiredXP /\ pl.level < MAX_LEVEL
        THEN [player |-> [counted EXCEPT !.level = @ + 1, !.experience = 0,
                                         !.health = Min(PLAYER_MAX_HEALTH, @ + LEVEL_UP_HEAL)],
              weapon |-> Upgrade(w, upDraw)]
        ELSE [player |-> counted, weapon |-> w]

RECURSIVE AddKills(_, _, _, _)
\* for (i = 0; i < enemiesKilled; i++) this.player.addKill()
AddKills(pl, w, n, upDraw) ==
    IF n <= 0 THEN [player |-> pl, weapon |-> w]
    ELSE LET r == AddKill(pl, w, upDraw)
         IN  AddKills(r.player, r.weapon, n - 1, upDraw)

KeyUpgradeUnlatched(w, down, latch, kind) == IF down THEN Upgrade(w, kind) ELSE w

\* One manual-control block of Game.update: the upgrade is made when the key
\* is down and was not seen down in the frame before.
KeyUpgrade(w, down, latch, kind) == IF down /\ ~latch THEN Upgrade(w, kind) ELSE w

-----------------------------------------------------------------------------
(* Bounds and input sets of the model *)

\* Operations per behaviour of the game specification.
MaxFrames == 4

\* Frame times (ms): a frame at 60 Hz, and a long one in which a spawn
\* falls due.
Dts == {16, 400}

\* The world of the behaviours: an obstacle on the spawn candidate DrawSouth,
\* and one in the line of fire east of the player's start.
Obstacles == {<<12, 15>>, <<19, 9>>}

\* Spawn candidates: east of the player at SPAWN_DISTANCE_MIN and 20 px
\* farther, and south of it (in a wall of Obstacles).
DrawEast == [angle |-> 0, distance |-> SPAWN_DISTANCE_MIN]

DrawEastFar == [angle |-> 0, distance |-> SPAWN_DISTANCE_MIN + 20]

DrawSouth == [angle |-> HALF_TURN \div 2, distance |-> SPAWN_DISTANCE_MIN + 50]

\* The random numbers of one spawnEnemy call: k times bad, then good.
DrawSeq(k, bad, good) == [i \in 1..MAX_ATTEMPTS |-> IF i <= k THEN bad ELSE good]

DrawChoices ==
    {DrawSeq(0, DrawEast, DrawEast), DrawSeq(1, DrawSouth, DrawEastFar),
     DrawSeq(MAX_ATTEMPTS, DrawSouth, DrawSouth)}

\* Retarget offsets (centi-pixels), each within [-25, 25) px.
Jitters == {[x |-> 0, y |-> 0], [x |-> -25 * POS_ONE, y |-> 24 * POS_ONE]}

\* The retarget offsets of the game's frames.
FrameJitters == {[x |-> -25 * POS_ONE, y |-> 24 * POS_ONE]}

\* Keys held down during a frame.
KeyChoices == {{}, {"KeyQ"}, {"KeyE", "KeyD"}}

\* Arguments of direct upgrade calls.
UpgradeKinds == {"damage", "fireRate", "multiShot", "range", "homing", "piercing",
                 "pattern", "shield"}

-----------------------------------------------------------------------------
(* History *)

RECURSIVE AddHits(_, _)
\* hits with the takeDamage calls of log counted.
AddHits(h, log) ==
    IF log = <<>> THEN h
    ELSE LET ev == Head(log)
             pair == <<ev.p, ev.e>>
             h2 == IF ev.kind # "damage" THEN h
                   ELSE IF pair \in DOMAIN h THEN [h EXCEPT ![pair] = @ + 1]
                   ELSE h @@ (pair :> 1)
         IN  AddHits(h2, Tail(log))

NoHits == [pair \in {} |-> 0]

NoLast ==
    [op |-> "new", dt |-> 0, attempted |-> FALSE, queries |-> 0, spawned |-> 0,
     fired |-> 0, log |-> <<>>, passEnemies |-> <<>>, passProjectiles |-> <<>>,
     killed |-> 0, draws |-> <<>>]

-----------------------------------------------------------------------------
(* The game: frames of Game.update, and upgrade calls *)

Init ==
    /\ obstacles = Obstacles
    /\ player = NewPlayer
    /\ enemies = <<>>
    /\ spawnTimer = 0
    /\ projectiles = <<>>
    /\ weapon = NewWeapon
    /\ keyLatch = [pattern |-> FALSE, upgrade |-> FALSE]
    /\ nextId = 1
    /\ hits = NoHits
    /\ last = NoLast
    /\ steps = 0

\* The state Game.update leaves: wu is the outcome of the weapon update, em
\* that of the enemy manager, k the player and weapon after the kills.
FrameOutcome(dt, keys, draws, wu, em, k, enemiesKilled) ==
    [keyLatch |-> [pattern |-> "KeyQ" \in keys, upgrade |-> "KeyE" \in keys],
     player |-> k.player, weapon |-> k.weapon, enemies |-> em.enemies,
     spawnTimer |-> em.spawnTimer, projectiles |-> em.projectiles,
     nextId |-> em.nextId, log |-> em.log,
     last |-> [op |-> "frame", dt |-> dt, attempted |-> em.attempted,
               queries |-> em.queries, spawned |-> em.spawned, fired |-> wu.fired,
               log |-> em.log, passEnemies |-> em.passEnemies,
               passProjectiles |-> em.passProjectiles, killed |-> enemiesKilled,
               draws |-> draws]]

\* Lines 126-130: one addKill per enemy the count went down by.
AwardKills(dt, keys, draws, upDraw, pl, wu, em, enemiesKilled) ==
    FrameOutcome(dt, keys, draws, wu, em, AddKills(pl, wu.weapon, enemiesKilled, upDraw),
                 enemiesKilled)

\* Lines 124-125: enemiesKilled = enemyCountBefore - enemyCountAfter.
CountKills(dt, keys, draws, upDraw, pl, wu, em, enemyCountBefore) ==
    AwardKills(dt, keys, draws, upDraw, pl, wu, em,
               enemyCountBefore - Len(GetEnemies(em.enemies)))

\* Line 121: the enemy manager's update, on the projectiles the weapon
\* update left.
UpdateEnemies(dt, keys, draws, jit, upDraw, pl, wu, enemyCountBefore) ==
    CountKills(dt, keys, draws, upDraw, pl, wu,
               EnemyManagerUpdate(enemies, spawnTimer, wu.projectiles, pl, dt,
                                  draws, jit, wu.nextId),
               enemyCountBefore)

\* Lines 103-112: the snapshot ens of the active enemies, and Player.update
\* with it, which moves the player (pl is the player moved) and then updates
\* the weapon system w.
UpdatePlayer(dt, keys, draws, jit, upDraw, w, ens, pl) ==
    UpdateEnemies(dt, keys, draws, jit, upDraw, pl,
                  WeaponUpdate(w, projectiles, pl, dt, ens, enemies, nextId),
                  Len(ens))

\* Game.update(deltaTime), without rendering, camera and notifications: the
\* state it leaves.  keys are the keys held down, draws, jit and upDraw the
\* random numbers of spawnEnemy, Enemy.update and Player.levelUp.
GameUpdate(dt, keys, draws, jit, upDraw) ==
    UpdatePlayer(dt, keys, draws, jit, upDraw,
                 KeyUpgrade(KeyUpgrade(weapon, "KeyQ" \in keys, keyLatch.pattern, "pattern"),
                            "KeyE" \in keys, keyLatch.upgrade, "multiShot"),
                 GetEnemies(enemies),
                 PlayerMove(player, dt, keys))

\* The step of the state machine that is one call Game.update(dt).
FrameWith(dt, keys, draws, jit) ==
    /\ \E r \in {GameUpdate(dt, keys, draws, jit, "damage")} :
            /\ keyLatch' = r.keyLatch
            /\ player' = r.player
            /\ weapon' = r.weapon
            /\ enemies' = r.enemies
            /\ spawnTimer' = r.spawnTimer
            /\ projectiles' = r.projectiles
            /\ nextId' = r.nextId
            /\ hits' = AddHits(hits, r.log)
            /\ last' = r.last
    /\ steps' = steps + 1
    /\ UNCHANGED obstacles

\* A frame of the game loop.
Frame ==
    /\ steps < MaxFrames
    /\ \E dt \in Dts, keys \in KeyChoices, draws \in DrawChoices, jit \in FrameJitters :
         FrameWith(dt, keys, draws, jit)

\* A call of WeaponSystem.upgrade(kind), as Player.levelUp makes it.
UpgradeCall(kind) ==
    /\ steps < MaxFrames
    /\ weapon' = Upgrade(weapon, kind)
    /\ last' = [NoLast EXCEPT !.op = "upgrade"]
    /\ steps' = steps + 1
    /\ UNCHANGED <<obstacles, player, enemies, spawnTimer, projectiles, keyLatch,
                   nextId, hits>>

Upgrades == \E kind \in UpgradeKinds : UpgradeCall(kind)

Next == Frame \/ Upgrades

Spec == Init /\ [][Next]_vars


-----------------------------------------------------------------------------
(* Hit-once rule of projectile and enemy pairs, over the frames of the game *)

\* The projectile with identity id in the sequence projs, as a set.
ProjectileById(projs, id) == {projs[i] : i \in {j \in 1..Len(projs) : projs[j].id = id}}

\* Every takeDamage call of the pass logged in log made by a projectile on an
\* enemy that was not in its hitEnemies when the pass began.
DamagesOnlyNewPairs(log, projsBefore) ==
    \A n \in 1..Len(log) :
        log[n].kind = "damage" =>
            \A p \in ProjectileById(projsBefore, log[n].p) : log[n].e \notin p.hitEnemies

\* Every projectile that is in the list before and after a step has kept all
\* the elements of its hitEnemies.
HitEnemiesGrow(projsBefore, projsAfter) ==
    \A i \in 1..Len(projsBefore) :
        \A q \in ProjectileById(projsAfter, projsBefore[i].id) :
            projsBefore[i].hitEnemies \subseteq q.hitEnemies

\* C1: over any sequence of frames, takeDamage is called at most once for each
\* pair of a projectile and an enemy, however often their bounds overlap; no
\* projectile's hitEnemies ever loses an element, and no projectile damages an
\* enemy that is already in its hitEnemies.
C1_HitOncePerPair ==
    [][ /\ \A pair \in DOMAIN hits' : hits'[pair] <= 1
        /\ HitEnemiesGrow(projectiles, projectiles')
        /\ DamagesOnlyNewPairs(last'.log, projectiles) ]_vars

\* A pass in which a projectile overlaps an active enemy that it has hit in
\* an earlier frame.
C1_Witness ==
    \E i \in 1..Len(last.passProjectiles), j \in 1..Len(last.passEnemies) :
        /\ last.passEnemies[j].id \in last.passProjectiles[i].hitEnemies
        /\ CheckProjectileCollision(last.passEnemies[j], last.passProjectiles[i])
        /\ <<last.passProjectiles[i].id, last.passEnemies[j].id>> \in DOMAIN hits

-----------------------------------------------------------------------------
(* Combat: frames of a game in progress, with projectiles in flight east of
   the player and enemies standing in their path *)

\* Frames per behaviour of the combat specification.
MaxPasses == 2

\* Frame time (ms) of the combat frames.
CombatDts == {16}

\* Where the enemies stand (centi-pixels east of the player's start, on its
\* row): two places 10 px apart, and one out of the projectiles' reach.
EnemyOffsets == {155 * POS_ONE, 165 * POS_ONE, 300 * POS_ONE}

\* An enemy as spawned, or after one hit of PROJECTILE_DAMAGE.
EnemyAt(id, offset, hurt) ==
    IF hurt
    THEN TakeDamage(NewEnemy(id, PLAYER_START_X * POS_ONE + offset,
                             PLAYER_START_Y * POS_ONE), PROJECTILE_DAMAGE)
    ELSE NewEnemy(id, PLAYER_START_X * POS_ONE + offset, PLAYER_START_Y * POS_ONE)

\* The manager's list: one or two enemies.
EnemyLineups ==
    {<<EnemyAt(1, o, h)>> : o \in EnemyOffsets, h \in BOOLEAN}
    \cup {<<EnemyAt(1, o[1], h[1]), EnemyAt(2, o[2], h[2])>> :
            o \in EnemyOffsets \X EnemyOffsets, h \in BOOLEAN \X BOOLEAN}

\* A projectile fired east from the player's start that has flown 150 px.
InFlight(id, damage, piercing) ==
    Advance(NewProjectile(id, PLAYER_START_X * POS_ONE, PLAYER_START_Y * POS_ONE,
                          DIR_ONE, 0, damage, piercing, 0), 150 * POS_ONE)

\* The damage of a shot: as configured, or after one damage upgrade.
ShotDamages == {PROJECTILE_DAMAGE, PROJECTILE_DAMAGE + 5}

\* The weapon's list: one or two projectiles of one volley.
Volleys ==
    {<<InFlight(3, d, pc)>> : d \in ShotDamages, pc \in BOOLEAN}
    \cup {<<InFlight(3, d[1], pc[1]), InFlight(4, d[2], pc[2])>> :
            d \in ShotDamages \X ShotDamages, pc \in BOOLEAN \X BOOLEAN}

InitCombat ==
    /\ obstacles = {}
    /\ player = NewPlayer
    /\ enemies \in EnemyLineups
    /\ spawnTimer = 0
    /\ projectiles \in Volleys
    /\ weapon = NewWeapon
    /\ keyLatch = [pattern |-> FALSE, upgrade |-> FALSE]
    /\ nextId = 5
    /\ hits = NoHits
    /\ last = NoLast
    /\ steps = 0

\* A frame without input; no spawn and no shot fall due within MaxPasses.
CombatFrame ==
    /\ steps < MaxPasses
    /\ \E dt \in CombatDts :
         FrameWith(dt, {}, DrawSeq(0, DrawEast, DrawEast), [x |-> 0, y |-> 0])

SpecCombat == InitCombat /\ [][CombatFrame]_vars

\* The takeDamage calls of the last pass made by projectile pid, as positions
\* of its log.
DamageEvents(pid) ==
    {n \in 1..Len(last.log) : last.log[n].kind = "damage" /\ last.log[n].p = pid}

\* The enemies of the last pass as its i-th projectile finds them: after the
\* scans of the projectiles before it.
EnemiesAtTurn(i) ==
    HandleProjectileCollisions(SubSeq(last.passProjectiles, 1, i - 1),
                               last.passEnemies).enemies

\* The enemies (as positions of the list) that are active and overlap the
\* i-th projectile of the last pass when its scan begins.
Overlapped(i) ==
    {j \in 1..Len(last.passEnemies) :
        /\ EnemiesAtTurn(i)[j].active
        /\ CheckProjectileCollision(EnemiesAtTurn(i)[j], last.passProjectiles[i])}

\* The i-th projectile of the last pass is active after it.
ActiveAfterPass(i) ==
    \A q \in ProjectileById(projectiles, last.passProjectiles[i].id) : q.active

\* What the last pass did with its i-th projectile, a piercing one: each
\* active enemy it overlaps has been damaged by it exactly once (in this
\* pass, with the projectile's damage, unless it was hit by it in an earlier
\* pass), and the projectile is still active.
PiercingPass(i) ==
    /\ \A j \in Overlapped(i) :
          /\ <<last.passProjectiles[i].id, last.passEnemies[j].id>> \in DOMAIN hits
          /\ hits[<<last.passProjectiles[i].id, last.passEnemies[j].id>>] = 1
          /\ last.passEnemies[j].id \notin last.passProjectiles[i].hitEnemies =>
                \E n \in DamageEvents(last.passProjectiles[i].id) :
                    /\ last.log[n].e = last.passEnemies[j].id
                    /\ last.log[n].amount = last.passProjectiles[i].damage
    /\ ActiveAfterPass(i)

\* What the last pass did with its i-th projectile, a non-piercing one: at
\* most one takeDamage call; after it the projectile is inactive and reaches
\* no further enemy; a projectile that overlaps an enemy makes the call.
StoppingPass(i) ==
    /\ Cardinality(DamageEvents(last.passProjectiles[i].id)) <= 1
    /\ \A n \in DamageEvents(last.passProjectiles[i].id) :
          /\ ~ActiveAfterPass(i)
          /\ \A m \in (n + 1)..Len(last.log) :
                last.log[m].p # last.passProjectiles[i].id
    /\ Overlapped(i) # {} => DamageEvents(last.passProjectiles[i].id) # {}

\* C2: in one handleProjectileCollisions pass a piercing projectile damages
\* every active enemy it overlaps, each exactly once, and stays active; a
\* non-piercing projectile damages at most one enemy, is inactive right after
\* that hit, and no further enemy is scanned for it.
C2_PiercingSemantics ==
    \A i \in 1..Len(last.passProjectiles) :
        IF last.passProjectiles[i].piercing THEN PiercingPass(i) ELSE StoppingPass(i)

\* A pass in which a piercing projectile damaged two enemies and a
\* non-piercing one that overlapped two active enemies damaged one.
C2_Witness ==
    \E i, k \in 1..Len(last.passProjectiles) :
        /\ last.passProjectiles[i].piercing
        /\ Cardinality(DamageEvents(last.passProjectiles[i].id)) = 2
        /\ ~last.passProjectiles[k].piercing
        /\ Cardinality(Overlapped(k)) = 2
        /\ Cardinality(DamageEvents(last.passProjectiles[k].id)) = 1

\* The projectiles of the last pass (as positions of its list) that hit the
\* j-th enemy in it: those whose hitEnemies gained the enemy.
Hitters(j) ==
    {i \in 1..Len(last.passProjectiles) :
        /\ last.passEnemies[j].id \notin last.passProjectiles[i].hitEnemies
        /\ \E q \in ProjectileById(projectiles, last.passProjectiles[i].id) :
              last.passEnemies[j].id \in q.hitEnemies}

RECURSIVE DamageOf(_)
\* The sum of the damage of the projectiles at the positions S.
DamageOf(S) ==
    IF S = {} THEN 0
    ELSE LET i == CHOOSE k \in S : TRUE
         IN  last.passProjectiles[i].damage + DamageOf(S \ {i})

\* The first enemy of the last pass that the i-th projectile overlaps, as a
\* set of positions (empty when it overlaps none).
FirstOverlap(i) ==
    {j \in 1..Len(last.passEnemies) :
        /\ CheckProjectileCollision(last.passEnemies[j], last.passProjectiles[i])
        /\ \A k \in 1..(j - 1) :
              ~CheckProjectileCollision(last.passEnemies[k], last.passProjectiles[i])}

\* Two different non-piercing projectiles of PROJECTILE_DAMAGE each meet the
\* j-th enemy, of health ENEMY_HEALTH, first in the last pass.
TwoShotsMeet(j) ==
    /\ last.passEnemies[j].health = ENEMY_HEALTH
    /\ Len(last.passProjectiles) = 2
    /\ \A i \in 1..2 :
          /\ ~last.passProjectiles[i].piercing
          /\ last.passProjectiles[i].damage = PROJECTILE_DAMAGE
          /\ FirstOverlap(i) = {j}

\* C9: within one handleProjectileCollisions pass the damage of distinct
\* projectiles on one enemy adds up: each enemy's health after the pass is its
\* health before minus the sum of the damage of the projectiles that hit it;
\* an enemy of health 40 met by two non-piercing projectiles of damage 20 ends
\* the pass with health 0 and inactive, and both projectiles are inactive.
C9_DamageAccumulates ==
    \A j \in 1..Len(last.passEnemies) :
        /\ enemies[j].id = last.passEnemies[j].id
        /\ enemies[j].health = last.passEnemies[j].health - DamageOf(Hitters(j))
        /\ TwoShotsMeet(j) =>
              /\ enemies[j].health = 0
              /\ ~enemies[j].active
              /\ \A i \in 1..2 : ~ActiveAfterPass(i)

\* A pass in which two non-piercing projectiles of damage 20 hit one enemy
\* of health 40.
C9_Witness ==
    \E j \in 1..Len(last.passEnemies) : TwoShotsMeet(j) /\ Hitters(j) = {1, 2}

-----------------------------------------------------------------------------
(* One enemy: takeDamage and update calls in any order *)

\* Calls per behaviour of the enemy specification.
MaxEnemyOps == 5

\* Arguments of takeDamage: the weapon's damage as configured and after one
\* upgrade, a graze, and a blow of the enemy's whole health.
DamageAmounts == {5, PROJECTILE_DAMAGE, PROJECTILE_DAMAGE + 5, ENEMY_HEALTH}

\* Frame times (ms) of the enemy's updates; the longer reaches the retarget
\* interval at once.
EnemyDts == {500, RETARGET_INTERVAL}

InitEnemy ==
    /\ obstacles = Obstacles
    /\ player = NewPlayer
    /\ enemies = <<NewEnemy(1, (PLAYER_START_X + SPAWN_DISTANCE_MIN) * POS_ONE,
                            PLAYER_START_Y * POS_ONE)>>
    /\ spawnTimer = 0
    /\ projectiles = <<>>
    /\ weapon = NewWeapon
    /\ keyLatch = [pattern |-> FALSE, upgrade |-> FALSE]
    /\ nextId = 2
    /\ hits = NoHits
    /\ last = NoLast
    /\ steps = 0

\* A call enemy.takeDamage(amount).
TakeDamageCall(amount) ==
    /\ steps < MaxEnemyOps
    /\ enemies' = <<TakeDamage(enemies[1], amount)>>
    /\ last' = [NoLast EXCEPT !.op = "takeDamage"]
    /\ steps' = steps + 1
    /\ UNCHANGED <<obstacles, player, spawnTimer, projectiles, weapon, keyLatch,
                   nextId, hits>>

\* A call enemy.update(dt, player, world).
EnemyUpdateCall(dt, jit) ==
    /\ steps < MaxEnemyOps
    /\ enemies' = <<EnemyUpdate(enemies[1], dt, player, jit)>>
    /\ last' = [NoLast EXCEPT !.op = "update", !.dt = dt]
    /\ steps' = steps + 1
    /\ UNCHANGED <<obstacles, player, spawnTimer, projectiles, weapon, keyLatch,
                   nextId, hits>>

TakeDamageCalls == \E amount \in DamageAmounts : TakeDamageCall(amount)

EnemyUpdateCalls == \E dt \in EnemyDts, jit \in Jitters : EnemyUpdateCall(dt, jit)

NextEnemy == TakeDamageCalls \/ EnemyUpdateCalls

SpecEnemy == InitEnemy /\ [][NextEnemy]_vars

\* C3: over any sequence of takeDamage and update calls the enemy's active
\* flag goes from true to false exactly in the call that first brings its
\* health to 0 or below, which is a takeDamage call; it changes at most once,
\* for no call sets it back to true.
C3_ActiveFlipsOnce ==
    [][ /\ (enemies[1].active /\ ~enemies'[1].active)
            <=> (enemies[1].health > 0 /\ enemies'[1].health <= 0)
        /\ (enemies[1].active /\ ~enemies'[1].active) => last'.op = "takeDamage"
        /\ enemies[1].active <=> enemies[1].health > 0
        /\ ~enemies[1].active => ~enemies'[1].active ]_vars

\* The enemy moved while it was active, then became inactive by a hit that
\* brought its health to exactly 0, and has been updated since.
C3_Witness ==
    /\ ~enemies[1].active
    /\ enemies[1].health = 0
    /\ enemies[1].x # (PLAYER_START_X + SPAWN_DISTANCE_MIN) * POS_ONE
    /\ last.op = "update"

-----------------------------------------------------------------------------
(* The enemy manager: update calls on a manager that has run for a while *)

\* Calls per behaviour of the spawn specification.
MaxSpawnOps == 4

\* Frame times (ms) of the manager's updates: the longest makes a spawn due
\* at once, the others after several calls.
SpawnDts == {16, 200, 400}

\* The player stands at its start, or near the world's north-west corner.
SpawnPlayers == {NewPlayer, [NewPlayer EXCEPT !.x = 100 * POS_ONE, !.y = 100 * POS_ONE]}

\* The updates the manager has been through before: none, or as many 400 ms
\* updates, each with a spawn, as leave room for two more enemies.
WarmUps == {0, MAX_ENEMIES - 2}

\* One update of 400 ms of the manager m of a player standing at pl, whose
\* spawn succeeds at its first candidate, east of the player.
WarmStep(pl, m) ==
    EnemyManagerUpdate(m.enemies, m.spawnTimer, <<>>, pl, 400,
                       DrawSeq(0, DrawEast, DrawEast), [x |-> 0, y |-> 0], m.nextId)

RECURSIVE WarmUp(_, _)
\* The manager of a player standing at pl after n such updates.
WarmUp(pl, n) ==
    IF n = 0
    THEN [enemies |-> <<>>, spawnTimer |-> 0, projectiles |-> <<>>, nextId |-> 1]
    ELSE CHOOSE r \in {WarmStep(pl, m) : m \in {WarmUp(pl, n - 1)}} : TRUE

InitSpawn ==
    /\ obstacles = Obstacles
    /\ player \in SpawnPlayers
    /\ \E n \in WarmUps : \E m \in {WarmUp(player, n)} :
          /\ enemies = m.enemies
          /\ spawnTimer = m.spawnTimer
          /\ nextId = m.nextId
    /\ projectiles = <<>>
    /\ weapon = NewWeapon
    /\ keyLatch = [pattern |-> FALSE, upgrade |-> FALSE]
    /\ hits = NoHits
    /\ last = NoLast
    /\ steps = 0

\* A call enemyManager.update(dt, player, world).
ManagerUpdateCall(dt, draws, jit) ==
    /\ steps < MaxSpawnOps
    /\ \E r \in {EnemyManagerUpdate(enemies, spawnTimer, projectiles, player, dt,
                                    draws, jit, nextId)} :
          /\ enemies' = r.enemies
          /\ spawnTimer' = r.spawnTimer
          /\ projectiles' = r.projectiles
          /\ nextId' = r.nextId
          /\ hits' = AddHits(hits, r.log)
          /\ last' = [NoLast EXCEPT !.op = "managerUpdate", !.dt = dt,
                                    !.attempted = r.attempted, !.queries = r.queries,
                                    !.spawned = r.spawned, !.log = r.log,
                                    !.passEnemies = r.passEnemies,
                                    !.passProjectiles = r.passProjectiles,
                                    !.draws = draws]
    /\ steps' = steps + 1
    /\ UNCHANGED <<obstacles, player, weapon, keyLatch>>

ManagerUpdateCalls ==
    \E dt \in SpawnDts, draws \in DrawChoices, jit \in FrameJitters :
        ManagerUpdateCall(dt, draws, jit)

SpecSpawn == InitSpawn /\ [][ManagerUpdateCalls]_vars

\* C4: after any sequence of EnemyManager.update calls the manager holds at
\* most maxEnemies active enemies.
C4_SpawnBound == Len(GetEnemies(enemies)) <= MAX_ENEMIES

\* The manager holds maxEnemies active enemies after an update in which the
\* spawn timer had run out and no spawn was attempted.
C4_Witness ==
    /\ Len(GetEnemies(enemies)) = MAX_ENEMIES
    /\ last.op = "managerUpdate"
    /\ spawnTimer * SPAWN_RATE >= 1000
    /\ ~last.attempted

\* The attempts of spawnEnemy (1..MAX_ATTEMPTS) whose candidate, drawn for a
\* player standing at pl, passes canMoveTo.
PassingAttempts(pl, draws) ==
    {k \in 1..MAX_ATTEMPTS :
        CanMoveTo(SpawnCandidate(pl, draws[k]).x, SpawnCandidate(pl, draws[k]).y,
                  ENEMY_SIZE * POS_ONE, ENEMY_SIZE * POS_ONE)}

\* The identities of the enemies of the list ens, in its order.
Identities(ens) == [i \in 1..Len(ens) |-> ens[i].id]

\* The step added one enemy to the list, at the candidate of attempt k.
SpawnedAt(k) ==
    /\ last'.queries = k
    /\ last'.spawned = 1
    /\ Identities(enemies') = Append(Identities(enemies), nextId)
    /\ enemies'[Len(enemies')].x = SpawnCandidate(player, last'.draws[k]).x
    /\ enemies'[Len(enemies')].y = SpawnCandidate(player, last'.draws[k]).y

\* The step made all MAX_ATTEMPTS queries and left the list as it was.
SpawnedNone ==
    /\ last'.queries = MAX_ATTEMPTS
    /\ last'.spawned = 0
    /\ Identities(enemies') = Identities(enemies)

\* C8: a spawnEnemy call makes at most 50 canMoveTo queries and adds at most
\* one enemy: exactly one, at the first candidate that passes canMoveTo, and
\* none when all 50 candidates fail; either way the update that made the call
\* sets the spawn timer to 0.
C8_SpawnAttempts ==
    [][ last'.attempted =>
          /\ last'.queries \in 1..MAX_ATTEMPTS
          /\ spawnTimer' = 0
          /\ IF PassingAttempts(player, last'.draws) = {}
             THEN SpawnedNone
             ELSE \E k \in PassingAttempts(player, last'.draws) :
                     /\ \A n \in PassingAttempts(player, last'.draws) : k <= n
                     /\ SpawnedAt(k) ]_vars

\* An update in which spawnEnemy was called on a list that had enemies, all
\* its 50 candidates failed, and the spawn timer is 0.
C8_Witness ==
    /\ last.attempted
    /\ last.queries = MAX_ATTEMPTS
    /\ last.spawned = 0
    /\ spawnTimer = 0
    /\ Len(enemies) > 0

-----------------------------------------------------------------------------
(* Firing: one fire call of a weapon system, for each upgrade state of the
   weapon and each line-up of enemies around the owner *)

\* The largest multiShotCount of the firing specification.
MaxShots == 3

\* rotationAngle values (centi-degrees): as constructed, after one 16 ms
\* update, after 500 ms, and past a full turn.
Rotations == {0, 144, 4500, 40500}

RECURSIVE Upgraded(_, _, _)
\* The weapon w after n calls upgrade(kind).
Upgraded(w, kind, n) == IF n = 0 THEN w ELSE Upgraded(Upgrade(w, kind), kind, n - 1)

\* The weapons that fire: multiShotCount 1..MaxShots, each of the patterns.
FireWeapons ==
    {[Upgraded(Upgraded(NewWeapon, "multiShot", n - 1), "pattern", k)
        EXCEPT !.rotationAngle = rot] :
        n \in 1..MaxShots, k \in 0..(Len(Patterns) - 1), rot \in Rotations}

\* Where enemies stand relative to the owner (centi-pixels): 100 px east,
\* 150 px to the north-east, exactly autoTargetRange south, 250 px west (out
\* of range), and on the owner's own position.
FireOffsets ==
    {<<100 * POS_ONE, 0>>, <<120 * POS_ONE, -90 * POS_ONE>>,
     <<0, AUTO_TARGET_RANGE * POS_ONE>>, <<-250 * POS_ONE, 0>>, <<0, 0>>}

\* An enemy at an offset from the player's start, alive or killed.
EnemyAround(id, offset, dead) ==
    IF dead
    THEN TakeDamage(NewEnemy(id, PLAYER_START_X * POS_ONE + offset[1],
                             PLAYER_START_Y * POS_ONE + offset[2]), ENEMY_HEALTH)
    ELSE NewEnemy(id, PLAYER_START_X * POS_ONE + offset[1],
                  PLAYER_START_Y * POS_ONE + offset[2])

\* The list handed to fire: one or two enemies.
FireLineups ==
    {<<EnemyAround(1, o, d)>> : o \in FireOffsets, d \in BOOLEAN}
    \cup {<<EnemyAround(1, o[1], d[1]), EnemyAround(2, o[2], d[2])>> :
            o \in FireOffsets \X FireOffsets, d \in BOOLEAN \X BOOLEAN}

InitFire ==
    /\ obstacles = {}
    /\ player = NewPlayer
    /\ enemies \in FireLineups
    /\ spawnTimer = 0
    /\ projectiles = <<>>
    /\ weapon \in FireWeapons
    /\ keyLatch = [pattern |-> FALSE, upgrade |-> FALSE]
    /\ nextId = 3
    /\ hits = NoHits
    /\ last = NoLast
    /\ steps = 0

\* A call weaponSystem.fire(enemies).
FireCall ==
    /\ steps = 0
    /\ \E new \in {Fire(weapon, player, enemies, nextId)} :
          /\ projectiles' = projectiles \o new
          /\ nextId' = nextId + Len(new)
          /\ last' = [NoLast EXCEPT !.op = "fire", !.fired = Len(new)]
    /\ steps' = steps + 1
    /\ UNCHANGED <<obstacles, player, enemies, spawnTimer, weapon, keyLatch, hits>>

SpecFire == InitFire /\ [][FireCall]_vars

\* The direction of projectile p has length 1, to the precision of the
\* direction components (1/DIR_ONE each).
UnitLength(p) ==
    Abs(p.directionX * p.directionX + p.directionY * p.directionY - DIR_ONE * DIR_ONE)
        <= 2 * DIR_ONE

\* C5: with multiShotCount = N and a non-empty enemy list, the patterns
\* spread, spiral and rotating yield exactly N directions, each of unit
\* length, whatever the rotation angle and the placement of the enemies.
C5_PatternCount ==
    (last.op = "fire" /\ Len(enemies) > 0
        /\ weapon.firingPattern \in {"spread", "spiral", "rotating"})
    => /\ Len(projectiles) = weapon.multiShotCount
       /\ \A i \in 1..Len(projectiles) : UnitLength(projectiles[i])

\* A spread of three shots fired at two enemies, in three different
\* directions.
C5_Witness ==
    /\ last.op = "fire"
    /\ weapon.firingPattern = "spread"
    /\ weapon.multiShotCount = 3
    /\ Len(enemies) = 2
    /\ Len(projectiles) = 3
    /\ Cardinality({<<projectiles[i].directionX, projectiles[i].directionY>> :
                        i \in 1..Len(projectiles)}) = 3

\* The number of active enemies of the list within autoTargetRange of the
\* owner, by squared distances.
InRangeCount ==
    Cardinality({i \in 1..Len(enemies) :
        /\ enemies[i].active
        /\ (enemies[i].x - player.x) * (enemies[i].x - player.x)
             + (enemies[i].y - player.y) * (enemies[i].y - player.y)
           <= weapon.autoTargetRange * weapon.autoTargetRange})

\* fire() was called under the nearest pattern with a non-empty enemy list.
FiredNearest ==
    last.op = "fire" /\ Len(enemies) > 0 /\ weapon.firingPattern = "nearest"

\* C6 (as stated): under the nearest pattern, with a non-empty enemy list,
\* fire() creates between 0 and min(N, number of active enemies in range)
\* projectiles, also when all enemies are out of range.
C6_NearestCountAsStated ==
    FiredNearest => Len(projectiles) <= Min(weapon.multiShotCount, InRangeCount)

\* C6: under the nearest pattern, with a non-empty enemy list, fire() creates
\* between 0 and min(N, number of active enemies in range) projectiles when
\* at least one active enemy is in range, and exactly N, each of unit
\* direction (the spread fallback), when none is.
C6_NearestCount ==
    FiredNearest =>
        IF InRangeCount > 0
        THEN Len(projectiles) <= Min(weapon.multiShotCount, InRangeCount)
        ELSE /\ Len(projectiles) = weapon.multiShotCount
             /\ \A i \in 1..Len(projectiles) : UnitLength(projectiles[i])

\* Two shots fired under the nearest pattern at a list whose enemies are all
\* active and out of range.
C6_Witness ==
    /\ FiredNearest
    /\ \A i \in 1..Len(enemies) : enemies[i].active
    /\ InRangeCount = 0
    /\ weapon.multiShotCount = 2
    /\ Len(projectiles) = 2

-----------------------------------------------------------------------------
(* Flight: the update calls of one non-homing projectile in open ground *)

\* Update calls per behaviour of the flight specification.
MaxUpdates == 8

\* Frame times (ms) of the projectile's updates.
FlightDts == {16, 125, 250, 1000}

\* Unit directions of the shot: east, south-east by 3:4, north, west.
FlightDirections ==
    {<<DIR_ONE, 0>>, <<(3 * DIR_ONE) \div 5, (4 * DIR_ONE) \div 5>>,
     <<0, -DIR_ONE>>, <<-DIR_ONE, 0>>}

\* The history of a flight: the number of update calls is steps; dt is the
\* frame time of the last call, constant whether all calls had the same one,
\* sum the sum of speed * dt / 1000 over the calls (centi-pixels).
NoFlight == [op |-> "new", dt |-> 0, constant |-> TRUE, sum |-> 0]

InitFlight ==
    /\ obstacles = {}
    /\ player = NewPlayer
    /\ enemies = <<>>
    /\ spawnTimer = 0
    /\ \E d \in FlightDirections :
          projectiles = <<NewProjectile(1, player.x, player.y, d[1], d[2],
                                        PROJECTILE_DAMAGE, FALSE, 0)>>
    /\ weapon = NewWeapon
    /\ keyLatch = [pattern |-> FALSE, upgrade |-> FALSE]
    /\ nextId = 2
    /\ hits = NoHits
    /\ last = NoFlight
    /\ steps = 0

\* A call projectile.update(dt, world, enemies).
ProjectileUpdateCall(dt) ==
    /\ steps < MaxUpdates
    /\ projectiles' = <<ProjectileUpdate(projectiles[1], dt, enemies, enemies)>>
    /\ last' = [op |-> "update", dt |-> dt,
                constant |-> last.constant /\ (steps = 0 \/ last.dt = dt),
                sum |-> last.sum + (PROJECTILE_SPEED * dt * POS_ONE) \div 1000]
    /\ steps' = steps + 1
    /\ UNCHANGED <<obstacles, player, enemies, spawnTimer, weapon, keyLatch,
                   nextId, hits>>

ProjectileUpdateCalls == \E dt \in FlightDts : ProjectileUpdateCall(dt)

SpecFlight == InitFlight /\ [][ProjectileUpdateCalls]_vars

\* The projectile has been updated with one and the same dt > 0 throughout.
ConstantFlight == steps > 0 /\ last.constant /\ last.dt > 0

\* C7 (as stated): a non-homing projectile of speed s and range r, updated
\* with a constant dt > 0 where canMoveTo is always true, is inactive within
\* ceil(r / (s * dt)) update calls, dt being the argument of the calls.
C7_RangeExpiryAsStated ==
    (ConstantFlight /\ steps >= CeilDiv(PROJECTILE_RANGE, PROJECTILE_SPEED * last.dt))
        => ~projectiles[1].active

\* C7: a non-homing projectile of speed s and range r, updated with a
\* constant dt > 0 (ms) where canMoveTo is always true, is inactive from
\* update call ceil(r / (s * dt / 1000)) on, and active after every earlier
\* call.
C7_RangeExpiry ==
    ConstantFlight =>
        (projectiles[1].active
            <=> steps < CeilDiv(PROJECTILE_RANGE * 1000, PROJECTILE_SPEED * last.dt))

\* The projectile became inactive in the fifth of five updates of 125 ms,
\* having travelled exactly its range.
C7_Witness ==
    /\ ConstantFlight
    /\ last.dt = 125
    /\ steps = 5
    /\ ~projectiles[1].active
    /\ projectiles[1].distanceTraveled = PROJECTILE_RANGE * POS_ONE

\* C10: after update calls whose total speed * dt / 1000 is below the range,
\* a non-homing projectile in open ground has distanceTraveled equal to that
\* total, stands at its firing position plus direction * distanceTraveled,
\* and is active; a shot fired east at speed 400 has distanceTraveled 100 and
\* is active after update(250).
C10_DistanceAccumulates ==
    (steps > 0 /\ last.sum < PROJECTILE_RANGE * POS_ONE) =>
        /\ projectiles[1].distanceTraveled = last.sum
        /\ projectiles[1].x * DIR_ONE
             = player.x * DIR_ONE + projectiles[1].directionX * last.sum
        /\ projectiles[1].y * DIR_ONE
             = player.y * DIR_ONE + projectiles[1].directionY * last.sum
        /\ projectiles[1].active
        /\ (steps = 1 /\ last.dt = 250 /\ projectiles[1].directionX = DIR_ONE) =>
              /\ projectiles[1].distanceTraveled = 100 * POS_ONE
              /\ projectiles[1].x = player.x + 100 * POS_ONE

\* The shot fired east after one update of 250 ms.
C10_Witness ==
    /\ steps = 1
    /\ last.dt = 250
    /\ projectiles[1].directionX = DIR_ONE
    /\ projectiles[1].distanceTraveled = 100 * POS_ONE
    /\ projectiles[1].active

-----------------------------------------------------------------------------
(* The phases of a frame: Game.update taken one call at a time *)

\* Frames per behaviour of the phase specification.
MaxPhaseFrames == 3

\* The position in Game.update that follows position pc: the input block
\* (lines 78-109), player.update with the weapon system's update in it (line
\* 112), enemyManager.update up to its pruning loop (line 121; lines 167-184
\* of enemy.js), its collision pass (line 187 of enemy.js), the kill count
\* (lines 124-130).
PhaseAfterEnemiesFirst(pc) ==
    CASE pc = "input"      -> "enemies"
      [] pc = "enemies"    -> "player"
      [] pc = "player"     -> "collisions"
      [] pc = "collisions" -> "kills"
      [] pc = "kills"      -> "input"

PhaseAfter(pc) ==
    CASE pc = "input"      -> "player"
      [] pc = "player"     -> "enemies"
      [] pc = "enemies"    -> "collisions"
      [] pc = "collisions" -> "kills"
      [] pc = "kills"      -> "input"

\* The history of a frame in progress: the position pc in Game.update, the
\* phases run so far, the frame's inputs, the snapshot of line 103, and the
\* state that Game.update as a whole leaves from the frame's first state.
NoPhases ==
    NoLast @@ [pc |-> "input", phases |-> <<>>, keys |-> {}, jit |-> [x |-> 0, y |-> 0],
               snapshot |-> <<>>, whole |-> <<>>]

InitPhases ==
    /\ obstacles = Obstacles
    /\ player = NewPlayer
    /\ enemies = <<>>
    /\ spawnTimer = 0
    /\ projectiles = <<>>
    /\ weapon = NewWeapon
    /\ keyLatch = [pattern |-> FALSE, upgrade |-> FALSE]
    /\ nextId = 1
    /\ hits = NoHits
    /\ last = NoPhases
    /\ steps = 0

\* Lines 78-109 of Game.update: the manual upgrade keys and the snapshot of
\* the active enemies.
InputPhase(dt, keys, draws, jit) ==
    /\ last.pc = "input"
    /\ steps < MaxPhaseFrames
    /\ weapon' = KeyUpgrade(KeyUpgrade(weapon, "KeyQ" \in keys, keyLatch.pattern, "pattern"),
                            "KeyE" \in keys, keyLatch.upgrade, "multiShot")
    /\ keyLatch' = [pattern |-> "KeyQ" \in keys, upgrade |-> "KeyE" \in keys]
    /\ \E whole \in {GameUpdate(dt, keys, draws, jit, "damage")} :
         last' = [NoPhases EXCEPT !.op = "input", !.pc = PhaseAfter("input"), !.dt = dt,
                                   !.keys = keys, !.draws = draws, !.jit = jit,
                                   !.snapshot = GetEnemies(enemies),
                                   !.whole = [w \in {"player", "weapon", "enemies",
                                                     "spawnTimer", "projectiles",
                                                     "keyLatch", "nextId"} |-> whole[w]]]
    /\ UNCHANGED <<obstacles, player, enemies, spawnTimer, projectiles, nextId, hits, steps>>

InputPhases ==
    \E dt \in Dts, keys \in KeyChoices, draws \in DrawChoices, jit \in FrameJitters :
        InputPhase(dt, keys, draws, jit)

\* Line 112 of Game.update: Player.update moves the player and updates the
\* weapon system with the snapshot.
PlayerPhase ==
    /\ last.pc = "player"
    /\ \E pl \in {PlayerMove(player, last.dt, last.keys)} :
         \E r \in {WeaponUpdate(weapon, projectiles, pl, last.dt, last.snapshot,
                                enemies, nextId)} :
            /\ player' = pl
            /\ weapon' = r.weapon
            /\ projectiles' = r.projectiles
            /\ nextId' = r.nextId
            /\ last' = [last EXCEPT !.op = "player", !.pc = PhaseAfter(@),
                                    !.phases = Append(@, "weapon"), !.fired = r.fired]
    /\ UNCHANGED <<obstacles, enemies, spawnTimer, keyLatch, hits, steps>>

\* Line 121 of Game.update, lines 167-184 of EnemyManager.update: the spawn
\* step, then every enemy updated and the inactive ones removed.
EnemyPhase ==
    /\ last.pc = "enemies"
    /\ \E sp \in {SpawnStep(enemies, spawnTimer + last.dt,
                            SpawnEnemy(enemies, player, last.draws, nextId))} :
            /\ enemies' = UpdateAndPrune(sp.enemies, last.dt, player, last.jit)
            /\ spawnTimer' = sp.spawnTimer
            /\ nextId' = nextId + (Len(sp.enemies) - Len(enemies))
            /\ last' = [last EXCEPT !.op = "enemies", !.pc = PhaseAfter(@),
                                    !.phases = Append(@, "enemies"),
                                    !.attempted = sp.attempted, !.queries = sp.queries,
                                    !.spawned = Len(sp.enemies) - Len(enemies)]
    /\ UNCHANGED <<obstacles, player, projectiles, weapon, keyLatch, hits, steps>>

\* Line 187 of EnemyManager.update: the collision pass.
CollisionPhase ==
    /\ last.pc = "collisions"
    /\ \E col \in {HandleProjectileCollisions(GetProjectiles(projectiles), enemies)} :
            /\ enemies' = col.enemies
            /\ projectiles' = WriteBack(projectiles, col.projectiles)
            /\ hits' = AddHits(hits, col.log)
            /\ last' = [last EXCEPT !.op = "collisions", !.pc = PhaseAfter(@),
                                    !.phases = Append(@, "collisions"), !.log = col.log,
                                    !.passEnemies = enemies,
                                    !.passProjectiles = GetProjectiles(projectiles)]
    /\ UNCHANGED <<obstacles, player, spawnTimer, weapon, keyLatch, nextId, steps>>

\* Lines 124-130 of Game.update: the kills are counted and awarded.
KillsPhase ==
    /\ last.pc = "kills"
    /\ \E n \in {Len(last.snapshot) - Len(GetEnemies(enemies))} :
         \E k \in {AddKills(player, weapon, n, "damage")} :
            /\ player' = k.player
            /\ weapon' = k.weapon
            /\ last' = [last EXCEPT !.op = "frame", !.pc = PhaseAfter(@), !.killed = n]
    /\ steps' = steps + 1
    /\ UNCHANGED <<obstacles, enemies, spawnTimer, projectiles, keyLatch, nextId, hits>>

NextPhases == InputPhases \/ PlayerPhase \/ EnemyPhase \/ CollisionPhase \/ KillsPhase

SpecPhases == InitPhases /\ [][NextPhases]_vars

\* The phases a frame has run when Game.update is at position pc, in the
\* order given.
PhasesAt(pc, order) ==
    CASE pc = "player"     -> <<>>
      [] pc = "enemies"    -> SubSeq(order, 1, 1)
      [] pc = "collisions" -> SubSeq(order, 1, 2)
      [] pc = "kills"      -> order
      [] pc = "input"      -> IF steps = 0 THEN <<>> ELSE order

\* The state is the one Game.update as a whole leaves from the first state of
\* the frame.
FrameAsWhole ==
    /\ player = last.whole.player
    /\ weapon = last.whole.weapon
    /\ enemies = last.whole.enemies
    /\ spawnTimer = last.whole.spawnTimer
    /\ projectiles = last.whole.projectiles
    /\ keyLatch = last.whole.keyLatch
    /\ nextId = last.whole.nextId

-----------------------------------------------------------------------------
(* Queries and inactive entities, over the combat frames *)

\* Every element of the sequence seq is active.
AllActive(seq) == \A i \in 1..Len(seq) : seq[i].active

\* C12: in every reachable state getEnemies returns only active enemies,
\* getProjectiles only active projectiles, findNearestEnemies (for every
\* count) only active enemies, and findNearestEnemy of every projectile no
\* enemy or an active one.
C12_QueriesExcludeInactive ==
    /\ AllActive(GetEnemies(enemies))
    /\ AllActive(GetProjectiles(projectiles))
    /\ \A count \in 1..Len(enemies) :
          AllActive(FindNearestEnemies(weapon, player, enemies, count))
    /\ \A i \in 1..Len(projectiles) :
          \A e \in EnemyById(enemies, FindNearestEnemy(projectiles[i], enemies)) : e.active

\* The collections hold an inactive enemy within the weapon's range, an
\* inactive projectile, and an active enemy that the queries return.
C12_Witness ==
    /\ \E i \in 1..Len(enemies) :
          /\ ~enemies[i].active
          /\ OwnerDistance(enemies[i], player) <= weapon.autoTargetRange
    /\ \E i \in 1..Len(projectiles) : ~projectiles[i].active
    /\ GetEnemies(enemies) # <<>>
    /\ FindNearestEnemies(weapon, player, enemies, Len(enemies)) # <<>>

-----------------------------------------------------------------------------
(* The sweep of inactive entities: frames of a game whose enemy list is full
   or one short of it, with a shot about to kill the first enemy *)

\* Frames per behaviour of the sweep specification.
MaxSweeps == 3

\* The manager's list: a hurt enemy 155 px east of the player, and enemies
\* 300 px east of it that fill the list to maxEnemies, or to one less.
FullHouses ==
    {[i \in 1..n |-> IF i = 1 THEN EnemyAt(1, 155 * POS_ONE, TRUE)
                              ELSE EnemyAt(i, 300 * POS_ONE, FALSE)] :
        n \in {MAX_ENEMIES - 1, MAX_ENEMIES}}

InitSweep ==
    /\ obstacles = Obstacles
    /\ player = NewPlayer
    /\ enemies \in FullHouses
    /\ spawnTimer = 0
    /\ projectiles \in {<<InFlight(MAX_ENEMIES + 1, PROJECTILE_DAMAGE, pc)>> : pc \in BOOLEAN}
    /\ weapon = NewWeapon
    /\ keyLatch = [pattern |-> FALSE, upgrade |-> FALSE]
    /\ nextId = MAX_ENEMIES + 2
    /\ hits = NoHits
    /\ last = NoLast
    /\ steps = 0

\* A frame without input.
SweepFrame ==
    /\ steps < MaxSweeps
    /\ \E dt \in Dts, draws \in DrawChoices, jit \in FrameJitters :
         FrameWith(dt, {}, draws, jit)

SpecSweep == InitSweep /\ [][SweepFrame]_vars

\* The identities of the inactive elements of the sequence seq.
InactiveIds(seq) == {seq[i].id : i \in {j \in 1..Len(seq) : ~seq[j].active}}

\* The identities of the elements of the sequence seq.
IdsOf(seq) == {seq[i].id : i \in 1..Len(seq)}

\* C13 (as stated): an entity that became inactive during frame N is removed
\* before frame N+1 iterates, so that no decision of frame N+1 sees it: the
\* spawn-cap test counts the active enemies only, and so a spawn is attempted
\* whenever the timer has run out and fewer than maxEnemies enemies are
\* active.
C13_RemovedBeforeNextFrameAsStated ==
    [][ ( /\ (spawnTimer + last'.dt) * SPAWN_RATE >= 1000
          /\ Len(GetEnemies(enemies)) < MAX_ENEMIES ) => last'.attempted ]_vars

\* What the code does in place of C13: an enemy or projectile that is
\* inactive when frame N+1 begins is removed from its collection during
\* frame N+1 and is never in it afterwards; the collision pass of frame N+1
\* does not see it; the spawn-cap test of frame N+1, which precedes the
\* removal, still counts it.
RemovedDuringNextFrame ==
    [][ /\ InactiveIds(enemies) \cap IdsOf(enemies') = {}
        /\ InactiveIds(projectiles) \cap IdsOf(projectiles') = {}
        /\ InactiveIds(enemies) \cap IdsOf(last'.passEnemies) = {}
        /\ InactiveIds(projectiles) \cap IdsOf(last'.passProjectiles) = {}
        /\ Len(enemies) >= MAX_ENEMIES => ~last'.attempted ]_vars

\* A frame has ended in which the spawn timer had run out, the list held
\* maxEnemies enemies of which one was inactive (killed and counted the frame
\* before), no spawn was attempted, and the inactive enemy was removed.
RemovedDuringNextFrameReached ==
    /\ last.op = "frame" /\ ~last.attempted
    /\ spawnTimer * SPAWN_RATE >= 1000
    /\ player.killCount = 1
    /\ Len(enemies) = MAX_ENEMIES - 1 /\ AllActive(enemies)
    /\ last.killed = 0

-----------------------------------------------------------------------------
(* Upgrades: calls of WeaponSystem.upgrade and of calculateFiringDirections *)

\* Upgrade calls per behaviour of the upgrade specification.
MaxUpgrades == 4

\* The weapon as constructed, and one whose firingPattern (a plain property
\* of the object) has been set from outside to a value the switch of
\* calculateFiringDirections does not know.
UpgradeWeapons == {NewWeapon, [NewWeapon EXCEPT !.firingPattern = "burst"]}

\* The lists handed to calculateFiringDirections: none, and two active
\* enemies within range.
UpgradeLineups ==
    {<<>>, <<EnemyAround(1, <<100 * POS_ONE, 0>>, FALSE),
             EnemyAround(2, <<120 * POS_ONE, -90 * POS_ONE>>, FALSE)>>}

\* The history of the upgrade calls: their arguments, the weapon before the
\* first and after each, and what calculateFiringDirections returned last.
NoUpgrades == NoLast @@ [kinds |-> <<>>, weapons |-> <<>>, directions |-> <<>>]

InitUpgrade ==
    /\ obstacles = {}
    /\ player = NewPlayer
    /\ enemies \in UpgradeLineups
    /\ spawnTimer = 0
    /\ projectiles = <<>>
    /\ weapon \in UpgradeWeapons
    /\ keyLatch = [pattern |-> FALSE, upgrade |-> FALSE]
    /\ nextId = 3
    /\ hits = NoHits
    /\ last = [NoUpgrades EXCEPT !.weapons = <<weapon>>]
    /\ steps = 0

\* A call weaponSystem.upgrade(kind).
UpgradeStep(kind) ==
    /\ steps < MaxUpgrades
    /\ weapon' = Upgrade(weapon, kind)
    /\ last' = [last EXCEPT !.op = "upgrade", !.kinds = Append(@, kind),
                            !.weapons = Append(@, Upgrade(weapon, kind))]
    /\ steps' = steps + 1
    /\ UNCHANGED <<obstacles, player, enemies, spawnTimer, projectiles, keyLatch,
                   nextId, hits>>

UpgradeSteps == \E kind \in UpgradeKinds : UpgradeStep(kind)

\* A call weaponSystem.calculateFiringDirections(enemies).
DirectionsCall ==
    /\ last.op # "directions"
    /\ last' = [last EXCEPT !.op = "directions",
                            !.directions = CalculateFiringDirections(weapon, player, enemies)]
    /\ UNCHANGED <<obstacles, player, enemies, spawnTimer, projectiles, weapon,
                   keyLatch, nextId, hits, steps>>

NextUpgrade == UpgradeSteps \/ DirectionsCall

SpecUpgrade == InitUpgrade /\ [][NextUpgrade]_vars

\* The upgrade kinds and the firing patterns the claims name.
RecognizedKinds == {"damage", "fireRate", "multiShot", "piercing", "homing", "range", "pattern"}

FourPatterns == {"nearest", "spread", "spiral", "rotating"}

\* C14: every upgrade call raises level by exactly 1, whatever the kind; an
\* unrecognized kind changes no other field of the weapon; with an
\* unrecognized firingPattern calculateFiringDirections returns what
\* calculateNearestTargeting returns.
C14_UnrecognizedFallbacks ==
    /\ \A i \in 1..Len(last.kinds) :
          /\ last.weapons[i + 1].level = last.weapons[i].level + 1
          /\ last.kinds[i] \notin RecognizedKinds =>
                last.weapons[i + 1] = [last.weapons[i] EXCEPT !.level = @ + 1]
    /\ (last.op = "directions" /\ weapon.firingPattern \notin FourPatterns) =>
          last.directions = CalculateNearestTargeting(weapon, player, enemies)

\* calculateFiringDirections has returned two directions for a weapon with an
\* unrecognized firingPattern that has been through an upgrade of an
\* unrecognized kind.
C14_Witness ==
    /\ last.op = "directions" /\ weapon.firingPattern \notin FourPatterns
    /\ Len(last.directions) = 2
    /\ \E i \in 1..Len(last.kinds) : last.kinds[i] \notin RecognizedKinds

\* The weapon w after an upgrade of a recognized kind, as C15 states it
\* (homing in tenths, fireRate in halves), the homing strength raised by 0.3
\* up to the cap; the firingPattern, which only a pattern upgrade changes, is
\* left as it is.
UpgradedAsStated(w, kind, cap) ==
    CASE kind = "damage"    -> [w EXCEPT !.damage = @ + 5, !.level = @ + 1]
      [] kind = "fireRate"  -> [w EXCEPT !.fireRate2 = @ + 1, !.level = @ + 1]
      [] kind = "multiShot" -> [w EXCEPT !.multiShotCount = @ + 1, !.level = @ + 1]
      [] kind = "piercing"  -> [w EXCEPT !.piercing = TRUE, !.level = @ + 1]
      [] kind = "homing"    -> [w EXCEPT !.homing = Min(cap, @ + 3), !.level = @ + 1]
      [] kind = "range"     -> [w EXCEPT !.autoTargetRange = @ + 50 * POS_ONE, !.level = @ + 1]
      [] kind = "pattern"   -> [w EXCEPT !.level = @ + 1]

\* Two weapons that differ at most in their firingPattern.
SameButPattern(w1, w2) == w1 = [w2 EXCEPT !.firingPattern = w1.firingPattern]

\* Every upgrade call of a recognized kind has changed its own parameter as
\* stated, homing up to the cap, and the level, and nothing else.
OwnParameterOnly(cap) ==
    \A i \in 1..Len(last.kinds) :
        last.kinds[i] \in RecognizedKinds =>
            SameButPattern(last.weapons[i + 1],
                           UpgradedAsStated(last.weapons[i], last.kinds[i], cap))
            /\ (last.kinds[i] # "pattern" =>
                    last.weapons[i + 1].firingPattern = last.weapons[i].firingPattern)

\* C15 (as stated): each recognized upgrade kind changes exactly its own
\* parameter and the level: damage +5, fireRate +0.5, multiShotCount +1,
\* piercing true, homing +0.3, autoTargetRange +50, pattern only
\* firingPattern.
C15_OwnParameterOnlyAsStated == OwnParameterOnly(100)

\* C15: each recognized upgrade kind changes exactly its own parameter and
\* the level: damage +5, fireRate +0.5, multiShotCount +1, piercing true,
\* homing +0.3 but to no more than 1.0, autoTargetRange +50, pattern only
\* firingPattern.
C15_OwnParameterOnly == OwnParameterOnly(10)

\* Four homing upgrades have been made: the last of them met the cap.
C15_Witness ==
    /\ Len(last.kinds) = 4
    /\ \A i \in 1..4 : last.kinds[i] = "homing"
    /\ weapon.homing = 10

\* The pattern that follows pattern in the cycle.
NextInCycle(pattern) ==
    CASE pattern = "nearest"  -> "spread"
      [] pattern = "spread"   -> "spiral"
      [] pattern = "spiral"   -> "rotating"
      [] pattern = "rotating" -> "nearest"

\* C16: upgrade('pattern') moves firingPattern to the next element of the
\* cycle nearest, spread, spiral, rotating, nearest; four consecutive pattern
\* upgrades from one of the four patterns return to it; after any sequence
\* of upgrades of the weapon as constructed firingPattern is one of the four.
C16_PatternCycle ==
    /\ \A i \in 1..Len(last.kinds) :
          (last.kinds[i] = "pattern" /\ last.weapons[i].firingPattern \in FourPatterns) =>
              last.weapons[i + 1].firingPattern = NextInCycle(last.weapons[i].firingPattern)
    /\ \A i \in 1..(Len(last.kinds) - 3) :
          ( /\ \A k \in i..(i + 3) : last.kinds[k] = "pattern"
            /\ last.weapons[i].firingPattern \in FourPatterns ) =>
              last.weapons[i + 4].firingPattern = last.weapons[i].firingPattern
    /\ last.weapons[1].firingPattern \in FourPatterns =>
          \A i \in 1..Len(last.weapons) : last.weapons[i].firingPattern \in FourPatterns

\* Four consecutive pattern upgrades of the weapon as constructed.
C16_Witness ==
    /\ Len(last.kinds) = 4
    /\ \A i \in 1..4 : last.kinds[i] = "pattern"
    /\ last.weapons[1] = NewWeapon
    /\ last.weapons[3].firingPattern = "spiral"

-----------------------------------------------------------------------------
(* Kill counting, over the frames of the game *)

\* C17: in every frame player.killCount grows by the number of enemies that
\* the frame's collision pass deactivated (the inactive enemies of the list
\* after the frame: those of earlier frames were removed before the pass),
\* also when an enemy is spawned in the same frame; nothing else changes it.
C17_KillsCounted ==
    [][ /\ last'.op = "frame" =>
              player'.killCount = player.killCount + Cardinality(InactiveIds(enemies'))
        /\ last'.op # "frame" => player'.killCount = player.killCount ]_vars

-----------------------------------------------------------------------------
(* Frame times: frames of no duration and frames after a long pause *)

\* Frames per behaviour of the lag specification.
MaxLagFrames == 3

\* Frame times (ms): the first frame's 0, a frame at 60 Hz, and a frame after
\* the page was in the background for ten seconds (30 spawn intervals, 20
\* firing intervals).
LagDts == {0, 16, 10000}

\* A frame without input.
LagFrame ==
    /\ steps < MaxLagFrames
    /\ \E dt \in LagDts, draws \in DrawChoices, jit \in FrameJitters :
         FrameWith(dt, {}, draws, jit)

SpecLag == Init /\ [][LagFrame]_vars

\* C18: whatever dt >= 0 a frame has, its EnemyManager.update makes at most
\* one spawn attempt (one run of spawnEnemy: at most MAX_ATTEMPTS queries, at
\* most one enemy) and its WeaponSystem.update at most one fire() (at most
\* multiShotCount projectiles), and both complete.
C18_OneSpawnOneFire ==
    last.op = "frame" =>
        /\ last.spawned \in {0, 1}
        /\ last.queries <= MAX_ATTEMPTS
        /\ last.fired <= weapon.multiShotCount

\* The second frame, of ten seconds, in which one enemy was spawned (the
\* first of the game) and one shot fired.
C18_Witness ==
    /\ last.op = "frame" /\ last.dt = 10000
    /\ last.spawned = 1 /\ last.fired = 1
    /\ steps = 2 /\ spawnTimer = 0 /\ Len(enemies) = 1

-----------------------------------------------------------------------------
(* The world: the player's moves near walls, and canMoveTo queries *)

\* Moves per behaviour of the world specification.
MaxWalks == 3

\* Where the player stands at first: at its start; just west of the obstacle
\* tile <<19, 9>>, in its row; diagonally north-west of that tile; against
\* the world's west border wall.
WalkStarts ==
    {NewPlayer,
     [NewPlayer EXCEPT !.x = 595 * POS_ONE, !.y = 300 * POS_ONE],
     [NewPlayer EXCEPT !.x = 595 * POS_ONE, !.y = 275 * POS_ONE],
     [NewPlayer EXCEPT !.x = 44 * POS_ONE,  !.y = 300 * POS_ONE]}

\* Movement keys held down: every combination of W, A, S and D, and two with
\* arrow keys.
WalkKeys ==
    SUBSET {"KeyW", "KeyA", "KeyS", "KeyD"}
        \cup {{"ArrowRight", "ArrowDown"}, {"KeyA", "ArrowRight", "ArrowUp"}}

\* Frame times (ms) of the moves: 2.4 px, 60 px and 1500 px.
WalkDts == {16, 400, 10000}

\* The rectangles asked about (centi-pixels): centres whose edges fall on, just
\* before, beyond and wholly outside tile and world borders, and the sizes of the player, of
\* an enemy and of a projectile.
QueryXs == {-2000, 1200, 4399, 4400, 40000, 59599, 59600, 155599, 155600, 158800, 162000}

QueryYs == {-2000, 4399, 4400, 27599, 27600, 30000, 123600, 126800}

QuerySizes == {PLAYER_SIZE * POS_ONE, ENEMY_SIZE * POS_ONE, 2 * PROJECTILE_RADIUS * POS_ONE}

\* The history of the world's calls: the keys of the last move, the last
\* query and its result.
NoWalk == NoLast @@ [keys |-> {}, query |-> <<>>, result |-> FALSE]

InitWorld ==
    /\ obstacles = Obstacles
    /\ player \in WalkStarts
    /\ enemies = <<>>
    /\ spawnTimer = 0
    /\ projectiles = <<>>
    /\ weapon = NewWeapon
    /\ keyLatch = [pattern |-> FALSE, upgrade |-> FALSE]
    /\ nextId = 1
    /\ hits = NoHits
    /\ last = NoWalk
    /\ steps = 0

\* The movement part of a call player.update(dt, inputHandler, world).
PlayerMoveCall(dt, keys) ==
    /\ steps < MaxWalks
    /\ player' = PlayerMove(player, dt, keys)
    /\ last' = [NoWalk EXCEPT !.op = "move", !.dt = dt, !.keys = keys]
    /\ steps' = steps + 1
    /\ UNCHANGED <<obstacles, enemies, spawnTimer, projectiles, weapon, keyLatch,
                   nextId, hits>>

PlayerMoveCalls == \E dt \in WalkDts, keys \in WalkKeys : PlayerMoveCall(dt, keys)

\* A call world.canMoveTo(x, y, width, height).
CanMoveToCall(x, y, width, height) ==
    /\ last.op = "new"
    /\ last' = [NoWalk EXCEPT !.op = "canMoveTo", !.query = <<x, y, width, height>>,
                              !.result = CanMoveTo(x, y, width, height)]
    /\ UNCHANGED <<obstacles, player, enemies, spawnTimer, projectiles, weapon,
                   keyLatch, nextId, hits, steps>>

CanMoveToCalls ==
    \E x \in QueryXs, y \in QueryYs, width \in QuerySizes, height \in QuerySizes :
        CanMoveToCall(x, y, width, height)

NextWorld == PlayerMoveCalls \/ CanMoveToCalls

SpecWorld == InitWorld /\ [][NextWorld]_vars

\* The player's rectangle passes canMoveTo.
PlayerFits(pl) == CanMoveTo(pl.x, pl.y, PLAYER_SIZE * POS_ONE, PLAYER_SIZE * POS_ONE)

\* Where the keys held down for dt ms would take the player on one axis.
AxisTarget(at, keys, dt, back, backArrow, forth, forthArrow) ==
    at - (IF Pressed(keys, back, backArrow) THEN (PLAYER_SPEED * dt * POS_ONE) \div 1000 ELSE 0)
       + (IF Pressed(keys, forth, forthArrow) THEN (PLAYER_SPEED * dt * POS_ONE) \div 1000 ELSE 0)

\* A move from before to after keeps the player on the floor, applies each
\* axis only to a rectangle that passes canMoveTo, and tests y at the x the
\* move ended with.
MoveKeepsFloor(before, after, keys, dt) ==
    /\ PlayerFits(before) => PlayerFits(after)
    /\ after.x \in {before.x, AxisTarget(before.x, keys, dt, "KeyA", "ArrowLeft", "KeyD", "ArrowRight")}
    /\ after.y \in {before.y, AxisTarget(before.y, keys, dt, "KeyW", "ArrowUp", "KeyS", "ArrowDown")}
    /\ after.x # before.x => PlayerFits([before EXCEPT !.x = after.x])
    /\ after.y # before.y => PlayerFits(after)

\* C19: the player never enters a wall or leaves the world: whenever its
\* rectangle passes canMoveTo before Player.update it passes after, for every
\* key combination and frame time; a move along an axis is applied only if the
\* resulting rectangle passes canMoveTo, x tested and applied before y.
C19_PlayerStaysOnFloor ==
    [][last'.op = "move" => MoveKeepsFloor(player, player', last'.keys, last'.dt)]_vars

\* From the spot north-west of the obstacle tile, with D and S held for 16 ms,
\* the x move was applied and the y move, tested from the new x, was not.
C19_Witness ==
    /\ last.op = "move" /\ steps = 1
    /\ last.keys = {"KeyS", "KeyD"} /\ last.dt = 16
    /\ player.x = 59740 /\ player.y = 27500

\* The tiles of index t on one axis hold a point of the interval lo..hi.
TileOverlaps(t, lo, hi) ==
    /\ t * TILE_SIZE * POS_ONE <= hi
    /\ (t + 1) * TILE_SIZE * POS_ONE > lo

\* Every tile that holds a point of the rectangle centred on (x, y) is inside
\* the grid and is not a wall.
EveryOverlappedTileIsFloor(x, y, width, height) ==
    \A tx \in -2..(WIDTH_TILES + 1), ty \in -2..(HEIGHT_TILES + 1) :
        (/\ TileOverlaps(tx, x - width \div 2, x + width \div 2)
         /\ TileOverlaps(ty, y - height \div 2, y + height \div 2))
        => /\ tx \in 0..(WIDTH_TILES - 1)
           /\ ty \in 0..(HEIGHT_TILES - 1)
           /\ ~TileIsWall(tx, ty)

\* C20: canMoveTo(x, y, w, h) is true exactly when every tile overlapped by
\* the rectangle of size w by h centred on (x, y) is inside the grid and is
\* floor, and it reads no tile outside the grid.
C20_CanMoveToExact ==
    last.op = "canMoveTo" =>
        /\ last.result <=> EveryOverlappedTileIsFloor(last.query[1], last.query[2],
                                                      last.query[3], last.query[4])
        /\ TilesRead(last.query[1], last.query[2], last.query[3], last.query[4])
               \subseteq (0..(WIDTH_TILES - 1)) \X (0..(HEIGHT_TILES - 1))

\* A player-sized rectangle whose south-east corner is the first point of the
\* obstacle tile <<19, 9>> was refused.
C20_Witness ==
    /\ last.op = "canMoveTo"
    /\ last.query = <<59600, 27600, PLAYER_SIZE * POS_ONE, PLAYER_SIZE * POS_ONE>>
    /\ ~last.result

-----------------------------------------------------------------------------
(* The spawn step of EnemyManager.update *)

\* C21: in every EnemyManager.update call in which the accumulated spawn
\* timer is at least 1000/spawnRate ms and fewer than maxEnemies enemies are
\* active, one spawn is attempted and the timer is reset to 0; when either
\* condition fails no spawn is attempted and the timer keeps what it has
\* accumulated.
C21_SpawnWhenDue ==
    [][ last'.op = "frame" =>
          IF /\ (spawnTimer + last'.dt) * SPAWN_RATE >= 1000
             /\ Len(GetEnemies(enemies)) < MAX_ENEMIES
          THEN last'.attempted /\ spawnTimer' = 0
          ELSE ~last'.attempted /\ spawnTimer' = spawnTimer + last'.dt ]_vars

-----------------------------------------------------------------------------
(* The weapon system: updates that fire by themselves, fire() calls, upgrades
   and moves of the owner *)

\* Update calls per behaviour of the weapon specification.
MaxWeaponUpdates == 5

\* Other calls (fire, upgrade, owner's move) per behaviour.
MaxWeaponOps == 2

\* Frame times (ms) of the weapon's updates, each above 0: two and a half of
\* the first make the 500 ms between shots, two of the second make it
\* exactly, the third alone.
WeaponDts == {200, 250, 500}

\* Updates after which a weapon has fired: those of the least frame time,
\* 200 ms, that fill the 1000/FIRE_RATE ms between shots of a new weapon (an
\* upgraded one fires sooner).
UpdatesToFire == CeilDiv(1000, FIRE_RATE * 200)

\* The history of the weapon's calls: called is whether the update called
\* fire(), elapsed the frame time summed since the update that last did, ops
\* the number of calls other than update.
NoWeaponOps == NoLast @@ [called |-> FALSE, elapsed |-> 0, ops |-> 0]

\* The weapon is new, or has had three homing upgrades (homing 0.9) and a
\* piercing upgrade.
InitWeapon ==
    /\ obstacles = Obstacles
    /\ player = NewPlayer
    /\ enemies \in {<<>>, <<EnemyAround(1, <<100 * POS_ONE, 0>>, FALSE)>>}
    /\ spawnTimer = 0
    /\ projectiles = <<>>
    /\ weapon \in {NewWeapon, Upgraded(Upgraded(NewWeapon, "homing", 3), "piercing", 1)}
    /\ keyLatch = [pattern |-> FALSE, upgrade |-> FALSE]
    /\ nextId = 2
    /\ hits = NoHits
    /\ last = NoWeaponOps
    /\ steps = 0

\* A call weaponSystem.update(dt, world, enemies) with the active enemies.
WeaponUpdateCall(dt) ==
    /\ steps < MaxWeaponUpdates
    /\ \E r \in {WeaponUpdate(weapon, projectiles, player, dt, GetEnemies(enemies),
                              enemies, nextId)} :
          /\ weapon' = r.weapon
          /\ projectiles' = r.projectiles
          /\ nextId' = r.nextId
          /\ last' = [NoWeaponOps EXCEPT !.op = "update", !.dt = dt, !.fired = r.fired,
                          !.called = r.firedDue, !.ops = last.ops,
                          !.elapsed = (IF last.called THEN 0 ELSE last.elapsed) + dt]
    /\ steps' = steps + 1
    /\ UNCHANGED <<obstacles, player, enemies, spawnTimer, keyLatch, hits>>

WeaponUpdateCalls == \E dt \in WeaponDts : WeaponUpdateCall(dt)

\* A call weaponSystem.fire(enemies) with the active enemies.
WeaponFireCall ==
    /\ last.ops < MaxWeaponOps
    /\ \E new \in {Fire(weapon, player, GetEnemies(enemies), nextId)} :
          /\ projectiles' = projectiles \o new
          /\ nextId' = nextId + Len(new)
          /\ last' = [last EXCEPT !.op = "fire", !.fired = Len(new), !.ops = @ + 1]
    /\ UNCHANGED <<obstacles, player, enemies, spawnTimer, weapon, keyLatch, hits, steps>>

\* A call weaponSystem.upgrade(kind).
WeaponUpgradeCall(kind) ==
    /\ last.ops < MaxWeaponOps
    /\ weapon' = Upgrade(weapon, kind)
    /\ last' = [last EXCEPT !.op = "upgrade", !.ops = @ + 1]
    /\ UNCHANGED <<obstacles, player, enemies, spawnTimer, projectiles, keyLatch,
                   nextId, hits, steps>>

\* The owner's move of a 250 ms frame with the key D held down.
OwnerMoveCall ==
    /\ last.ops < MaxWeaponOps
    /\ player' = PlayerMove(player, 250, {"KeyD"})
    /\ last' = [last EXCEPT !.op = "move", !.ops = @ + 1]
    /\ UNCHANGED <<obstacles, enemies, spawnTimer, projectiles, weapon, keyLatch,
                   nextId, hits, steps>>

NextWeapon ==
    \/ WeaponUpdateCalls
    \/ WeaponFireCall
    \/ \E kind \in {"damage", "fireRate", "homing", "piercing"} : WeaponUpgradeCall(kind)
    \/ OwnerMoveCall

\* An update call, as the counter of update calls shows it.
UpdateCounted == steps < MaxWeaponUpdates /\ steps' = steps + 1

\* The game loop goes on calling update.
SpecWeapon == InitWeapon /\ [][NextWeapon]_vars /\ WF_steps(UpdateCounted)

\* C22: update calls fire() exactly when the time since the last shot, dt
\* added, has reached 1/fireRate, and then sets the accumulator to 0, dropping
\* the remainder; so the frame times between two fire() calls of update sum
\* to at least 1/fireRate, and with dt > 0 in every frame a fire() eventually
\* happens.
C22_FireWhenDue ==
    /\ [][ last'.op = "update" =>
             /\ last'.called <=>
                  (weapon.timeSinceLastShot + last'.dt) * weapon.fireRate2 >= 2 * 1000
             /\ last'.called =>
                  /\ weapon'.timeSinceLastShot = 0
                  /\ last'.elapsed * weapon.fireRate2 >= 2 * 1000
             /\ ~last'.called =>
                  weapon'.timeSinceLastShot = weapon.timeSinceLastShot + last'.dt ]_vars
    /\ \A n \in 0..(MaxWeaponUpdates - UpdatesToFire) :
          (steps = n) ~> (steps > n /\ last.op = "update" /\ last.called)

\* An update fired 700 ms after construction (updates of 200, 250 and 250 ms)
\* and set the accumulator to 0, dropping the 200 ms beyond the interval.
C22_Witness ==
    /\ last.op = "update" /\ last.called /\ last.elapsed = 700
    /\ weapon.fireRate2 = 2 * FIRE_RATE /\ weapon.timeSinceLastShot = 0

\* Projectile p is as fire() makes one of weapon w at the owner's position in
\* direction d.
AsFired(p, w, owner, d) ==
    /\ p.x = owner.x /\ p.y = owner.y
    /\ p.directionX = d.x /\ p.directionY = d.y
    /\ p.damage = w.damage /\ p.piercing = w.piercing /\ p.homing = w.homing

\* The sequence after holds the sequence before and then one projectile per
\* direction, each as fired.
OnePerDirection(before, after, w, owner, directions) ==
    /\ Len(after) = Len(before) + Len(directions)
    /\ SubSeq(after, 1, Len(before)) = before
    /\ \A i \in 1..Len(directions) :
          AsFired(after[Len(before) + i], w, owner, directions[i])

\* Every projectile of after that was in flight before has the damage,
\* piercing and homing it had, and every other has those of weapon w.
MakeKept(before, after, w, firstNew) ==
    \A i \in 1..Len(after) :
        IF after[i].id < firstNew
        THEN \E j \in 1..Len(before) :
                /\ before[j].id = after[i].id
                /\ before[j].damage = after[i].damage
                /\ before[j].piercing = after[i].piercing
                /\ before[j].homing = after[i].homing
        ELSE /\ after[i].damage = w.damage
             /\ after[i].piercing = w.piercing
             /\ after[i].homing = w.homing

\* C23: fire() creates exactly one projectile per computed direction, each at
\* the owner's position of the moment and with the weapon's damage, piercing
\* and homing of the moment; a later upgrade() or move of the owner changes
\* no projectile in flight, and an update keeps the damage, piercing and
\* homing of each.
C23_ShotsKeepTheirMake ==
    [][ /\ last'.op = "fire" =>
              OnePerDirection(projectiles, projectiles', weapon, player,
                  CalculateFiringDirections(weapon, player, GetEnemies(enemies)))
        /\ last'.op \in {"upgrade", "move"} => projectiles' = projectiles
        /\ last'.op = "update" =>
              /\ MakeKept(projectiles, projectiles', weapon, nextId)
              /\ last'.fired =
                    IF last'.called
                    THEN Len(CalculateFiringDirections(weapon, player, GetEnemies(enemies)))
                    ELSE 0 ]_vars

\* fire() was called after a damage upgrade while a shot made before the
\* upgrade was in flight: the old shot has the old damage, the new one the
\* new damage and the owner's position.
C23_Witness ==
    /\ last.op = "fire" /\ Len(projectiles) = 2
    /\ projectiles[1].damage = PROJECTILE_DAMAGE
    /\ projectiles[2].damage = PROJECTILE_DAMAGE + 5
    /\ weapon.damage = PROJECTILE_DAMAGE + 5
    /\ projectiles[2].x = player.x /\ projectiles[2].y = player.y
    /\ projectiles[1].x # player.x

\* C29: after any sequence of upgrade calls the weapon's homing and that of
\* every projectile it fires lie in [0, 1] (in tenths: 0..10), a homing
\* upgrade adding 0.3 up to 1.0; and piercing, once true, stays true.
C29_HomingWithinUnit ==
    [][ /\ weapon'.homing \in 0..10
        /\ \A i \in 1..Len(projectiles') : projectiles'[i].homing \in 0..10
        /\ weapon'.homing # weapon.homing =>
              /\ last'.op = "upgrade"
              /\ weapon'.homing = Min(10, weapon.homing + 3)
        /\ weapon.piercing => weapon'.piercing ]_vars

\* The weapon, after a piercing and four homing upgrades, fired a piercing
\* shot of homing 1.0.
C29_Witness ==
    /\ last.op = "fire" /\ weapon.level = 6
    /\ weapon.homing = 10 /\ weapon.piercing
    /\ projectiles[Len(projectiles)].homing = 10
    /\ projectiles[Len(projectiles)].piercing

-----------------------------------------------------------------------------
(* The directions of the nearest and spread patterns *)

\* The square of the distance between enemy e and the owner (centi-pixels).
SquaredDistance(e, owner) ==
    (e.x - owner.x) * (e.x - owner.x) + (e.y - owner.y) * (e.y - owner.y)

\* The indices of the active enemies within autoTargetRange of the owner.
Qualifying(w, owner, ens) ==
    {i \in 1..Len(ens) :
        /\ ens[i].active
        /\ SquaredDistance(ens[i], owner) <= w.autoTargetRange * w.autoTargetRange}

\* The sequence T of indices into ens lists the closest enemies among those
\* of Q, as many as its length, in ascending order of distance.
ClosestAscending(T, Q, ens, owner) ==
    /\ \A k \in 1..Len(T) : T[k] \in Q
    /\ \A k, m \in 1..Len(T) : k # m => T[k] # T[m]
    /\ \A k \in 1..(Len(T) - 1) :
          SquaredDistance(ens[T[k]], owner) <= SquaredDistance(ens[T[k + 1]], owner)
    /\ \A i \in Q :
          (\A k \in 1..Len(T) : T[k] # i) =>
              \A k \in 1..Len(T) :
                  SquaredDistance(ens[T[k]], owner) <= SquaredDistance(ens[i], owner)

\* The unit vectors from the owner to the enemies listed by T, those on the
\* owner's own position left out.
UnitVectorsTo(T, ens, owner) ==
    LET apart == SelectSeq(T, LAMBDA i : SquaredDistance(ens[i], owner) > 0)
    IN  [k \in 1..Len(apart) |->
            UnitVector(ens[apart[k]].x - owner.x, ens[apart[k]].y - owner.y)]

\* The directions of the projectiles projs, in order.
DirectionsOf(projs) ==
    [i \in 1..Len(projs) |-> [x |-> projs[i].directionX, y |-> projs[i].directionY]]

\* The sequences of n indices into a list of length len.
IndexSequences(n, len) == [1..n -> 1..len]

\* C24: under the nearest pattern the targets are the min(N, q) closest of the
\* q active enemies within autoTargetRange, in ascending order of distance,
\* and each direction emitted is the unit vector from the owner to its
\* target; with q = 0 the result is that of the spread pattern called with an
\* empty list.
C24_NearestTargets ==
    (last.op = "fire" /\ weapon.firingPattern = "nearest") =>
        IF Qualifying(weapon, player, enemies) = {}
        THEN DirectionsOf(projectiles) = CalculateSpreadPattern(weapon, player, <<>>)
        ELSE \E T \in IndexSequences(Min(weapon.multiShotCount,
                                         Cardinality(Qualifying(weapon, player, enemies))),
                                     Len(enemies)) :
                /\ ClosestAscending(T, Qualifying(weapon, player, enemies), enemies, player)
                /\ DirectionsOf(projectiles) = UnitVectorsTo(T, enemies, player)

\* Two shots at two enemies in range of which the second of the list is the
\* nearer: the first shot flies east to it, the second north-east to the
\* first of the list.
C24_Witness ==
    /\ last.op = "fire" /\ weapon.firingPattern = "nearest"
    /\ weapon.multiShotCount = 2 /\ Len(enemies) = 2 /\ Len(projectiles) = 2
    /\ enemies[1].active /\ enemies[2].active
    /\ enemies[1].x = player.x + 120 * POS_ONE /\ enemies[1].y = player.y - 90 * POS_ONE
    /\ enemies[2].x = player.x + 100 * POS_ONE /\ enemies[2].y = player.y
    /\ projectiles[1].directionX = DIR_ONE /\ projectiles[1].directionY = 0
    /\ projectiles[2].directionX = (4 * DIR_ONE) \div 5
    /\ projectiles[2].directionY = -((3 * DIR_ONE) \div 5)

\* The indices of the active enemies of ens than which none is nearer to the
\* owner.
NearestActive(ens, owner) ==
    {i \in 1..Len(ens) :
        /\ ens[i].active
        /\ \A j \in 1..Len(ens) :
              ens[j].active =>
                  SquaredDistance(ens[i], owner) <= SquaredDistance(ens[j], owner)}

\* The N directions evenly spaced by the spread angle and centred on base:
\* at base - step * (N - 1) / 2 + i * step for i = 0..N-1.
SpreadCentredOn(w, base) ==
    [i \in 1..w.multiShotCount |->
        DirectionAt(base - Round(DegToRad(w.spreadAngle) * (w.multiShotCount - 1), 2)
                         + (i - 1) * DegToRad(w.spreadAngle))]

\* C25: under the spread pattern the N directions are at the angles
\* base - step * (N - 1) / 2 + i * step, where base is the angle from the
\* owner to the nearest enemy whenever an enemy is supplied, and the current
\* rotationAngle when none is.  (A list of inactive enemies only, which the
\* game never supplies, is left open.)
C25_SpreadBase ==
    (last.op = "fire" /\ weapon.firingPattern = "spread") =>
        /\ enemies = <<>> =>
              DirectionsOf(projectiles) = SpreadCentredOn(weapon, DegToRad(weapon.rotationAngle))
        /\ NearestActive(enemies, player) # {} =>
              \E i \in NearestActive(enemies, player) :
                  DirectionsOf(projectiles) =
                      SpreadCentredOn(weapon, Atan2(enemies[i].y - player.y,
                                                    enemies[i].x - player.x))

\* What the code does in place of C25: the base is the angle to the nearest
\* active enemy within autoTargetRange when the list supplied holds one, the
\* angle 0 when the list is not empty but holds none, and the rotationAngle
\* when the list is empty.
SpreadBaseInRange ==
    (last.op = "fire" /\ weapon.firingPattern = "spread") =>
        IF enemies = <<>>
        THEN DirectionsOf(projectiles) = SpreadCentredOn(weapon, DegToRad(weapon.rotationAngle))
        ELSE IF Qualifying(weapon, player, enemies) = {}
        THEN DirectionsOf(projectiles) = SpreadCentredOn(weapon, 0)
        ELSE \E i \in Qualifying(weapon, player, enemies) \cap NearestActive(enemies, player) :
                  DirectionsOf(projectiles) =
                      SpreadCentredOn(weapon, Atan2(enemies[i].y - player.y,
                                                    enemies[i].x - player.x))

\* A single shot of the spread pattern, with one active enemy 250 px west of
\* the owner and a weapon turned by 45 degrees, was fired east.
SpreadBaseInRangeReached ==
    /\ last.op = "fire" /\ weapon.firingPattern = "spread"
    /\ weapon.multiShotCount = 1 /\ weapon.rotationAngle = 4500
    /\ Len(enemies) = 1 /\ enemies[1].active
    /\ enemies[1].x = player.x - 250 * POS_ONE /\ enemies[1].y = player.y
    /\ projectiles[1].directionX = DIR_ONE /\ projectiles[1].directionY = 0

-----------------------------------------------------------------------------
(* Homing: updates of one projectile among two enemies *)

\* Update calls per behaviour of the homing specification.
MaxHomingUpdates == 2

\* Frame times (ms) of the updates: a frame at 60 Hz, a slow one, and one
\* that takes the projectile beyond its range.
HomingDts == {16, 125, 1000}

\* The homing strengths (tenths) a weapon gives its projectiles: 0 and what
\* one to four homing upgrades make of it.
HomingStrengths == {Upgraded(NewWeapon, "homing", n).homing : n \in 0..4}

\* Directions of the projectile: east, and south-east by 3:4.
HomingDirections == {<<DIR_ONE, 0>>, <<(3 * DIR_ONE) \div 5, (4 * DIR_ONE) \div 5>>}

\* Where the enemies stand relative to the projectile (centi-pixels): 100 px
\* ahead of an eastward flight, 50 px exactly behind it, on the projectile,
\* and 50 px exactly behind a south-eastward flight.
HomingOffsets ==
    {<<100 * POS_ONE, 0>>, <<-50 * POS_ONE, 0>>, <<0, 0>>, <<-30 * POS_ONE, -40 * POS_ONE>>}

\* The manager's two enemies, each alive or killed.
HomingLineups ==
    {<<EnemyAround(1, o[1], d[1]), EnemyAround(2, o[2], d[2])>> :
        o \in HomingOffsets \X HomingOffsets, d \in BOOLEAN \X BOOLEAN}

\* The history of the homing calls: list is the enemy list handed to the
\* last update, was the target the projectile had before it.
NoHoming == [op |-> "new", dt |-> 0, list |-> <<>>, was |-> 0]

\* A projectile at the player's start, with no target yet or with one of the
\* two enemies as the target it acquired before.
InitHoming ==
    /\ obstacles = Obstacles
    /\ player = NewPlayer
    /\ enemies \in HomingLineups
    /\ spawnTimer = 0
    /\ \E d \in HomingDirections, h \in HomingStrengths, t \in 0..2 :
          projectiles = <<[NewProjectile(3, player.x, player.y, d[1], d[2],
                                         PROJECTILE_DAMAGE, FALSE, h)
                              EXCEPT !.targetEnemy = t]>>
    /\ weapon = NewWeapon
    /\ keyLatch = [pattern |-> FALSE, upgrade |-> FALSE]
    /\ nextId = 4
    /\ hits = NoHits
    /\ last = NoHoming
    /\ steps = 0

\* A call projectile.update(dt, world, list).
HomingUpdateCall(dt, list) ==
    /\ steps < MaxHomingUpdates
    /\ projectiles' = <<ProjectileUpdate(projectiles[1], dt, list, enemies)>>
    /\ last' = [op |-> "update", dt |-> dt, list |-> list,
                was |-> projectiles[1].targetEnemy]
    /\ steps' = steps + 1
    /\ UNCHANGED <<obstacles, player, enemies, spawnTimer, weapon, keyLatch,
                   nextId, hits>>

\* The list is the game's snapshot of the active enemies, the manager's whole
\* list, or empty.
HomingUpdateCalls ==
    \E dt \in HomingDts, list \in {GetEnemies(enemies), enemies, <<>>} :
        HomingUpdateCall(dt, list)

\* An enemy is killed: takeDamage of all its health.
HomingKill(i) ==
    /\ enemies[i].active
    /\ enemies' = [enemies EXCEPT ![i] = TakeDamage(@, @.health)]
    /\ last' = [NoHoming EXCEPT !.op = "kill"]
    /\ UNCHANGED <<obstacles, player, spawnTimer, projectiles, weapon, keyLatch,
                   nextId, hits, steps>>

NextHoming == HomingUpdateCalls \/ \E i \in 1..2 : HomingKill(i)

SpecHoming == InitHoming /\ [][NextHoming]_vars

\* The projectile's target is an enemy of the list all that is active.
TargetLive(p, all) ==
    \E i \in 1..Len(all) : all[i].id = p.targetEnemy /\ all[i].active

\* The identity of the active enemy of list nearest to projectile p, the
\* first in list order among equally near ones; 0 when none is active.
FirstNearestActive(p, list) ==
    IF \A i \in 1..Len(list) : ~list[i].active THEN 0
    ELSE list[CHOOSE i \in 1..Len(list) :
                /\ list[i].active
                /\ \A j \in 1..Len(list) :
                      list[j].active =>
                          /\ SquaredDistance(list[i], p) <= SquaredDistance(list[j], p)
                          /\ SquaredDistance(list[i], p) = SquaredDistance(list[j], p)
                                => i <= j].id

\* The update of projectile p to q with the list handed over acquired a
\* target only in place of none or of an inactive one, and the nearest active
\* enemy then; it kept an active target; and it turned q only towards an
\* active enemy.
HomedOnActive(p, q, list, all) ==
    /\ ~TargetLive(p, all) => q.targetEnemy = FirstNearestActive(p, list)
    /\ TargetLive(p, all) => q.targetEnemy = p.targetEnemy
    /\ (q.directionX # p.directionX \/ q.directionY # p.directionY) => TargetLive(q, all)

\* C26: a homing projectile (homing > 0, a list that is not empty) whose
\* target is null or inactive re-acquires the active enemy nearest to it, the
\* first in list order winning ties; it keeps an active target even when
\* another enemy is nearer; and it never turns towards an inactive enemy.
C26_HomingTarget ==
    [][ ( /\ last'.op = "update" /\ projectiles[1].active
          /\ projectiles[1].homing > 0 /\ last'.list # <<>> )
        => HomedOnActive(projectiles[1], projectiles'[1], last'.list, enemies) ]_vars

\* The projectile's target, the second enemy, was killed, and the update
\* after that took the first enemy in its place.
C26_Witness ==
    /\ last.op = "update" /\ last.was = 2 /\ last.list # <<>>
    /\ ~enemies[2].active /\ enemies[1].active
    /\ projectiles[1].homing > 0 /\ projectiles[1].targetEnemy = 1

\* The update of projectile p to q with the list handed over changed nothing
\* of an inactive p, and left the direction of an active p that has no homing
\* or was handed an empty list.
StraightOrStill(p, q, list) ==
    /\ ~p.active => q = p
    /\ (p.active /\ (p.homing = 0 \/ list = <<>>)) =>
          /\ q.directionX = p.directionX
          /\ q.directionY = p.directionY

\* C27: with homing = 0 or an empty enemy list Projectile.update leaves the
\* direction unchanged (straight-line flight); an update of an inactive
\* projectile changes nothing at all.
C27_StraightOrStill ==
    [][ last'.op = "update" =>
           StraightOrStill(projectiles[1], projectiles'[1], last'.list) ]_vars

\* A homing projectile that a first update of one second took beyond its
\* range was updated again, with enemies, and is where it was.
C27_Witness ==
    /\ last.op = "update" /\ steps = 2 /\ last.dt = 16 /\ last.list # <<>>
    /\ ~projectiles[1].active /\ projectiles[1].homing > 0
    /\ projectiles[1].distanceTraveled = PROJECTILE_SPEED * POS_ONE

-----------------------------------------------------------------------------
(* Retargeting: updates of one enemy while the player walks *)

\* Frame times (ms) of the enemy's updates: a quarter of the retarget
\* interval, three quarters of it, and the whole.
RetargetDts == {500, 1500, RETARGET_INTERVAL}

\* A call enemy.update(dt, player, world).
RetargetUpdateCalls == \E dt \in RetargetDts, jit \in Jitters : EnemyUpdateCall(dt, jit)

\* The player's move of a 400 ms frame (60 px) with the key A or D held down.
PlayerWalk(key) ==
    /\ steps < MaxEnemyOps
    /\ player' = PlayerMove(player, 400, {key})
    /\ last' = [NoLast EXCEPT !.op = "move", !.dt = 400]
    /\ steps' = steps + 1
    /\ UNCHANGED <<obstacles, enemies, spawnTimer, projectiles, weapon, keyLatch,
                   nextId, hits>>

NextRetarget == RetargetUpdateCalls \/ \E key \in {"KeyA", "KeyD"} : PlayerWalk(key)

SpecRetarget == InitEnemy /\ [][NextRetarget]_vars

\* The target of enemy e is the position of pl plus a jitter within
\* [-25, +25] px on each axis.
TargetNearPlayer(e, pl) ==
    /\ Abs(e.targetX - pl.x) <= 25 * POS_ONE
    /\ Abs(e.targetY - pl.y) <= 25 * POS_ONE

\* The update of dt ms of the active enemy e to f, with the player at pl:
\* when the timer reaches the interval it is reset to 0 and the target set
\* near the player (kept, when onPlayer allows, if the enemy is exactly on
\* the player); below the interval the timer accumulates and the target is
\* kept.
RetargetsOnTime(e, f, dt, pl, onPlayer) ==
    IF e.retargetTimer + dt >= RETARGET_INTERVAL
    THEN /\ f.retargetTimer = 0
         /\ IF onPlayer /\ e.x = pl.x /\ e.y = pl.y
            THEN f.targetX = e.targetX /\ f.targetY = e.targetY
            ELSE TargetNearPlayer(f, pl)
    ELSE /\ f.retargetTimer = e.retargetTimer + dt
         /\ f.targetX = e.targetX /\ f.targetY = e.targetY

\* C30 (as stated): whenever an active enemy's retarget timer reaches
\* retargetInterval in an update, its target is set to the player's position
\* plus a jitter within [-25, +25] on each axis and the timer is reset to 0,
\* no remainder carried; below the interval the target is unchanged.
C30_RetargetOnTimeAsStated ==
    [][ (last'.op = "update" /\ enemies[1].active) =>
           RetargetsOnTime(enemies[1], enemies'[1], last'.dt, player, FALSE) ]_vars

\* C30 (amended): as stated, except that an enemy exactly at the player's
\* position when the timer reaches the interval keeps its target (the timer
\* is reset all the same).
C30_RetargetOnTime ==
    [][ (last'.op = "update" /\ enemies[1].active) =>
           RetargetsOnTime(enemies[1], enemies'[1], last'.dt, player, TRUE) ]_vars

\* An update has reset the timer and left the enemy a target more than 25 px
\* from the player: the player had walked to where the enemy stood.
C30_Witness ==
    /\ last.op = "update" /\ enemies[1].active
    /\ enemies[1].retargetTimer = 0
    /\ ~TargetNearPlayer(enemies[1], player)

-----------------------------------------------------------------------------
(* Seeking: one enemy spawned by the manager, then updated, among walls *)

\* Calls per behaviour of the seeking specification.
MaxSeekOps == 5

\* Frame times (ms) of the enemy's updates: half the retarget interval
\* (a step of 60 px) and a quarter of a second (15 px).
SeekDts == {1000, 250}

\* The worlds: one wall tile between the spawn points and the player.
SeekWorlds == {{t} : t \in (13..16) \X (10..13)}

\* The random numbers of spawnEnemy: south-east of the player at
\* SPAWN_DISTANCE_MIN, and the same 10 px farther.
SeekDraws ==
    {DrawSeq(0, DrawEast, [angle |-> HALF_TURN \div 4, distance |-> d])
        : d \in {SPAWN_DISTANCE_MIN, SPAWN_DISTANCE_MIN + 10}}

NoSeek == [op |-> "new", dt |-> 0, was |-> NewEnemy(0, 0, 0)]

InitSeek ==
    /\ obstacles \in SeekWorlds
    /\ player = NewPlayer
    /\ enemies = <<>>
    /\ spawnTimer = 0
    /\ projectiles = <<>>
    /\ weapon = NewWeapon
    /\ keyLatch = [pattern |-> FALSE, upgrade |-> FALSE]
    /\ nextId = 1
    /\ hits = NoHits
    /\ last = NoSeek
    /\ steps = 0

\* A call enemyManager.spawnEnemy(player, world) that creates the enemy.
SeekSpawnCall(draws) ==
    /\ enemies = <<>>
    /\ \E sp \in {SpawnEnemy(enemies, player, draws, nextId)} :
          /\ sp.enemies # <<>>
          /\ enemies' = sp.enemies
    /\ nextId' = nextId + 1
    /\ last' = [NoSeek EXCEPT !.op = "spawn"]
    /\ UNCHANGED <<obstacles, player, spawnTimer, projectiles, weapon, keyLatch,
                   hits, steps>>

\* A call enemy.update(dt, player, world) on the spawned enemy.
SeekUpdateCall(dt, jit) ==
    /\ enemies # <<>>
    /\ steps < MaxSeekOps
    /\ enemies' = <<EnemyUpdate(enemies[1], dt, player, jit)>>
    /\ last' = [op |-> "update", dt |-> dt, was |-> enemies[1]]
    /\ steps' = steps + 1
    /\ UNCHANGED <<obstacles, player, spawnTimer, projectiles, weapon, keyLatch,
                   nextId, hits>>

NextSeek ==
    \/ \E draws \in SeekDraws : SeekSpawnCall(draws)
    \/ \E dt \in SeekDts, jit \in Jitters : SeekUpdateCall(dt, jit)

SpecSeek == InitSeek /\ [][NextSeek]_vars

\* canMoveTo at the enemy's size.
EnemyFits(x, y) == CanMoveTo(x, y, ENEMY_SIZE * POS_ONE, ENEMY_SIZE * POS_ONE)

\* Where an update of dt ms aims the enemy at (x, y) with target (tx, ty):
\* speed * dt / 1000 along the normalized vector to the target.
AimedAt(x, y, tx, ty, dt) ==
    LET dir == UnitVector(tx - x, ty - y)
        moveDistance == (ENEMY_SPEED * dt * POS_ONE) \div 1000
    IN  [x |-> x + Round(dir.x * moveDistance, DIR_ONE),
         y |-> y + Round(dir.y * moveDistance, DIR_ONE)]

\* The update of dt ms that takes the enemy e to f: no move within 5 px of
\* the target; else x becomes the aimed x if that fits at the old y, and y
\* the aimed y if that fits at the x just settled.
AxisGatedMove(e, f, dt) ==
    IF Hypot(f.targetX - e.x, f.targetY - e.y) <= STOP_DISTANCE * POS_ONE
    THEN f.x = e.x /\ f.y = e.y
    ELSE LET a == AimedAt(e.x, e.y, f.targetX, f.targetY, dt)
         IN  /\ f.x = IF EnemyFits(a.x, e.y) THEN a.x ELSE e.x
             /\ f.y = IF EnemyFits(f.x, a.y) THEN a.y ELSE e.y

\* C31: Enemy.update moves the enemy only when it is more than 5 px from its
\* target; the x move is tested at (newX, oldY) and applied if it passes,
\* then the y move is tested at (the x already updated, newY) and applied if
\* it passes; an axis whose test fails is left unchanged while the other may
\* still move.
C31_AxisGatedMove ==
    [][ last'.op = "update" => AxisGatedMove(enemies[1], enemies'[1], last'.dt) ]_vars

\* An update moved the enemy in x only: the y move failed from the x already
\* updated, though it would have passed from the old x.
C31_Witness ==
    /\ last.op = "update"
    /\ enemies[1].x # last.was.x /\ enemies[1].y = last.was.y
    /\ \E a \in {AimedAt(last.was.x, last.was.y, enemies[1].targetX,
                          enemies[1].targetY, last.dt)} :
          /\ a.y # last.was.y
          /\ EnemyFits(last.was.x, a.y)
          /\ ~EnemyFits(enemies[1].x, a.y)

\* C32: every enemy's rectangle passes world.canMoveTo at every reachable
\* state of a static world: the enemy is created only where canMoveTo passed
\* at enemy size, and no sequence of updates moves it to where it fails.
C32_EnemiesStayOnFloor ==
    \A i \in 1..Len(enemies) : EnemyFits(enemies[i].x, enemies[i].y)

\* An update aimed the spawned enemy into the wall in x: it moved in y alone
\* and stands where canMoveTo passes.
C32_Witness ==
    /\ last.op = "update"
    /\ enemies[1].x = last.was.x /\ enemies[1].y # last.was.y
    /\ ~EnemyFits(AimedAt(last.was.x, last.was.y, enemies[1].targetX,
                          enemies[1].targetY, last.dt).x, last.was.y)
    /\ EnemyFits(enemies[1].x, enemies[1].y)

-----------------------------------------------------------------------------
(* Damage and activity (on the combat specification) *)

RECURSIVE DamageBefore(_, _)
\* The damage the enemy eid has taken in the last pass before position n of
\* its log.
DamageBefore(eid, n) ==
    IF n <= 1 THEN 0
    ELSE DamageBefore(eid, n - 1)
         + (IF last.log[n - 1].kind = "damage" /\ last.log[n - 1].e = eid
            THEN last.log[n - 1].amount ELSE 0)

\* The enemy eid is active at position n of the last pass's log: it entered
\* the pass active and the damage taken so far has left it health.
EnemyLiveAt(eid, n) ==
    \E j \in 1..Len(last.passEnemies) :
        /\ last.passEnemies[j].id = eid
        /\ last.passEnemies[j].active
        /\ last.passEnemies[j].health - DamageBefore(eid, n) > 0

\* The projectile pid is active at position n of the last pass's log: it
\* entered the pass active and, unless piercing, has hit nothing so far.
ProjectileLiveAt(pid, n) ==
    \E i \in 1..Len(last.passProjectiles) :
        /\ last.passProjectiles[i].id = pid
        /\ last.passProjectiles[i].active
        /\ \/ last.passProjectiles[i].piercing
           \/ \A m \in 1..(n - 1) :
                 ~(last.log[m].kind = "damage" /\ last.log[m].p = pid)

\* Where the turn of the i-th projectile of the last pass begins in its log.
TurnStart(i) ==
    LET mine == {n \in 1..Len(last.log) : last.log[n].p = last.passProjectiles[i].id}
    IN  IF mine = {} THEN Len(last.log) + 1
        ELSE CHOOSE n \in mine : \A m \in mine : n <= m

\* The enemies (positions of the list) whose rectangle the i-th projectile of
\* the last pass intersects.
Touched(i) ==
    {j \in 1..Len(last.passEnemies) :
        RectanglesIntersect(EnemyBounds(last.passEnemies[j]),
                            ProjectileBounds(last.passProjectiles[i]))}

\* The i-th projectile of the last pass touches enemies, all of them dead
\* when its turn begins and one of them killed earlier in the pass.
TouchesOnlyDead(i) ==
    /\ Touched(i) # {}
    /\ \A j \in Touched(i) :
          ~EnemyLiveAt(last.passEnemies[j].id, TurnStart(i))
    /\ \E j \in Touched(i) : EnemyLiveAt(last.passEnemies[j].id, 1)

\* C33: damage is applied only when both sides are active: every takeDamage
\* call of a pass is on an enemy active at that moment and for a projectile
\* active at that moment, so an enemy killed earlier in the pass absorbs no
\* further projectile, and a non-piercing projectile that overlaps only
\* such dead enemies makes no call and stays active.
C33_DamageOnlyWhenActive ==
    /\ \A n \in 1..Len(last.log) :
          last.log[n].kind = "damage" =>
             /\ EnemyLiveAt(last.log[n].e, n)
             /\ ProjectileLiveAt(last.log[n].p, n)
    /\ \A i \in 1..Len(last.passProjectiles) :
          (~last.passProjectiles[i].piercing /\ TouchesOnlyDead(i)) =>
             /\ DamageEvents(last.passProjectiles[i].id) = {}
             /\ ActiveAfterPass(i)

\* A pass in which the first projectile killed an enemy and the second, not
\* piercing, overlapped that dead enemy alone and is still active.
C33_Witness ==
    /\ Len(last.passProjectiles) = 2
    /\ DamageEvents(last.passProjectiles[1].id) # {}
    /\ ~last.passProjectiles[2].piercing
    /\ TouchesOnlyDead(2)
    /\ ActiveAfterPass(2)

\* The health of every enemy of the list is at most maxHealth (and, when
\* floor is set, at least 0), and an enemy of health <= 0 is inactive.
HealthRange(ens, floor) ==
    \A i \in 1..Len(ens) :
        /\ floor => 0 <= ens[i].health
        /\ ens[i].health <= ENEMY_HEALTH
        /\ ens[i].health <= 0 => ~ens[i].active

\* C34 (as stated): at every reachable state every enemy's health satisfies
\* 0 <= health <= maxHealth, and health <= 0 implies active = false.
C34_HealthRangeAsStated == HealthRange(enemies, TRUE)

\* C34 (amended): at every reachable state every enemy's health is at most
\* maxHealth and health <= 0 implies active = false; the blow that kills an
\* enemy may leave its health below 0.
C34_HealthRange == HealthRange(enemies, FALSE)

\* A pass has left an enemy dead with its health below 0.
C34_Witness ==
    /\ last.op = "frame"
    /\ \E i \in 1..Len(enemies) : enemies[i].health < 0 /\ ~enemies[i].active

-----------------------------------------------------------------------------
(* The game loop (main.js): frame callbacks, stop() and restart() *)

\* Calls and display frames per behaviour of the loop specification.
MaxLoopOps == 5

\* Time (ms) from one display frame to the next: 60 Hz and 30 Hz.
FrameGaps == {16, 33}

\* The worlds new World() may generate at a restart.
LoopWorlds == {Obstacles, {}}

\* Game.gameLoop(timestamp) on the loop fields g: gameRunning and lastTime
\* are the Game's fields, pending counts the callbacks handed to
\* requestAnimationFrame and not yet run, and updates lists the deltaTime
\* of each Game.update call of the current operation (what update does with
\* it is the action Frame of the game specification).
GameLoop(g, timestamp) ==
    IF ~g.gameRunning THEN g
    ELSE [g EXCEPT !.lastTime = timestamp,
                   !.updates = Append(@, timestamp - g.lastTime),
                   !.pending = @ + 1]

RECURSIVE RunCallbacks(_, _, _)
\* The browser runs the k callbacks requested before the display frame of
\* time now, each with that timestamp; the callbacks they request wait for
\* the next display frame.
RunCallbacks(g, k, now) ==
    IF k = 0 THEN g ELSE RunCallbacks(GameLoop(g, now), k - 1, now)

\* The loop fields after new Game(): init() has set gameRunning and called
\* gameLoop() with the default timestamp 0.  now is the time of the latest
\* display frame and called that of the latest frame callback run (-1: none).
NoLoop ==
    [op |-> "init", gameRunning |-> TRUE, lastTime |-> 0, pending |-> 1,
     updates |-> <<0>>, now |-> 0, called |-> -1]

InitLoop ==
    /\ obstacles = Obstacles
    /\ player = NewPlayer
    /\ enemies = <<>>
    /\ spawnTimer = 0
    /\ projectiles = <<>>
    /\ weapon = NewWeapon
    /\ keyLatch = [pattern |-> FALSE, upgrade |-> FALSE]
    /\ nextId = 1
    /\ hits = NoHits
    /\ last = NoLoop
    /\ steps = 0

\* A display frame gap ms after the latest: the pending callbacks run.
DisplayFrame(gap) ==
    /\ steps < MaxLoopOps
    /\ last' = RunCallbacks([last EXCEPT !.op = "frame", !.pending = 0,
                                         !.updates = <<>>, !.now = @ + gap,
                                         !.called = IF last.pending > 0
                                                    THEN last.now + gap ELSE @],
                            last.pending, last.now + gap)
    /\ steps' = steps + 1
    /\ UNCHANGED <<obstacles, player, enemies, spawnTimer, projectiles, weapon,
                   keyLatch, nextId, hits>>

\* Game.stop()
StopCall ==
    /\ steps < MaxLoopOps
    /\ last' = [last EXCEPT !.op = "stop", !.gameRunning = FALSE, !.updates = <<>>]
    /\ steps' = steps + 1
    /\ UNCHANGED <<obstacles, player, enemies, spawnTimer, projectiles, weapon,
                   keyLatch, nextId, hits>>

\* Game.restart(): new player (with its weapon system), world and enemy
\* manager, then gameLoop() with the default timestamp 0.
RestartCall ==
    /\ steps < MaxLoopOps
    /\ obstacles' \in LoopWorlds
    /\ player' = NewPlayer
    /\ weapon' = NewWeapon
    /\ projectiles' = <<>>
    /\ enemies' = <<>>
    /\ spawnTimer' = 0
    /\ last' = GameLoop([last EXCEPT !.op = "restart", !.gameRunning = TRUE,
                                     !.updates = <<>>], 0)
    /\ steps' = steps + 1
    /\ UNCHANGED <<keyLatch, nextId, hits>>

NextLoop == (\E gap \in FrameGaps : DisplayFrame(gap)) \/ StopCall \/ RestartCall

SpecLoop == InitLoop /\ [][NextLoop]_vars

\* C35: the deltaTime handed to Game.update is the time elapsed between two
\* consecutive animation-frame callbacks and is never negative, over any
\* sequence of frame callbacks, stop() and restart() calls.
C35_DeltaTimeIsElapsed ==
    [][ \A n \in 1..Len(last'.updates) :
          /\ last'.updates[n] >= 0
          /\ (last'.op = "frame" /\ last.called >= 0) =>
                last'.updates[n] = IF n = 1 THEN last'.now - last.called ELSE 0 ]_vars

\* What the code does: a frame callback hands update the callback's
\* timestamp minus lastTime, which is the timestamp of the latest gameLoop
\* call that ran update, and 0 after a restart; restart hands it minus
\* lastTime.
DeltaTimeFromLastTime ==
    [][ \A n \in 1..Len(last'.updates) :
          last'.updates[n] = IF n > 1 THEN 0
                             ELSE IF last'.op = "frame" THEN last'.now - last.lastTime
                             ELSE -last.lastTime ]_vars

\* C36: at most one animation-frame callback of the game loop is pending at
\* any time, so update runs at most once per display frame, for every
\* interleaving of frame callbacks with stop() and restart() calls; after
\* stop() with no restart, no further update runs.
C36_OneCallbackPending ==
    /\ last.pending <= 1
    /\ last.op = "frame" => Len(last.updates) <= 1
    /\ ~last.gameRunning => last.updates = <<>>

\* What the code does: the callbacks pending never exceed one more than the
\* restart() calls made, a display frame runs update once per callback that
\* was pending, and none while stopped.
PendingWithinRestarts ==
    /\ last.pending <= 1 + steps
    /\ ~last.gameRunning => last.updates = <<>>

-----------------------------------------------------------------------------
(* The upgrade keys Q and E over the frames of the game *)

\* Frames per behaviour of the keys specification.
MaxKeyFrames == 4

\* The keys the input handler reports as held down during a frame.
HeldKeys == SUBSET {"KeyQ", "KeyE"}

NoKeys == [op |-> "new", dt |-> 0, held |-> <<>>]

InitKeys ==
    /\ obstacles = Obstacles
    /\ player = NewPlayer
    /\ enemies = <<>>
    /\ spawnTimer = 0
    /\ projectiles = <<>>
    /\ weapon = NewWeapon
    /\ keyLatch = [pattern |-> FALSE, upgrade |-> FALSE]
    /\ nextId = 1
    /\ hits = NoHits
    /\ last = NoKeys
    /\ steps = 0

\* A call Game.update(16) with the keys held down; last.held lists the keys
\* of the frames so far.
KeysFrame(keys) ==
    /\ steps < MaxKeyFrames
    /\ \E r \in {GameUpdate(16, keys, DrawSeq(0, DrawEast, DrawEast),
                             [x |-> 0, y |-> 0], "damage")} :
            /\ keyLatch' = r.keyLatch
            /\ player' = r.player
            /\ weapon' = r.weapon
            /\ enemies' = r.enemies
            /\ spawnTimer' = r.spawnTimer
            /\ projectiles' = r.projectiles
            /\ nextId' = r.nextId
            /\ hits' = AddHits(hits, r.log)
    /\ last' = [op |-> "frame", dt |-> 16, held |-> Append(last.held, keys)]
    /\ steps' = steps + 1
    /\ UNCHANGED obstacles

NextKeys == \E keys \in HeldKeys : KeysFrame(keys)

SpecKeys == InitKeys /\ [][NextKeys]_vars

\* The frames so far in which key is held down and was not in the frame
\* before: those that begin a holding of the key.
Pressings(key) ==
    {i \in 1..Len(last.held) :
        key \in last.held[i] /\ (i = 1 \/ key \notin last.held[i - 1])}

\* C37: holding Q (respectively E) down over any number of consecutive
\* frames triggers exactly one upgrade('pattern') (respectively
\* upgrade('multiShot')) call; another call happens only after a frame in
\* which the key was seen released followed by a frame in which it is
\* pressed again.  Each call raises the weapon's level by one; a pattern call
\* moves the firing pattern one place on, a multiShot call adds one shot.
C37_OneUpgradePerPress ==
    /\ weapon.level = 1 + Cardinality(Pressings("KeyQ")) + Cardinality(Pressings("KeyE"))
    /\ weapon.multiShotCount = MULTI_SHOT_COUNT + Cardinality(Pressings("KeyE"))
    /\ PatternIndex(weapon.firingPattern)
         = 1 + (Cardinality(Pressings("KeyQ")) % Len(Patterns))

\* Q was held for two frames, seen released in the third and pressed again
\* in the fourth: two pattern calls; E was held throughout: one multiShot
\* call.
C37_Witness ==
    /\ Len(last.held) = 4
    /\ \A i \in 1..4 : "KeyE" \in last.held[i] /\ ("KeyQ" \in last.held[i] <=> i # 3)
    /\ weapon.level = 4
    /\ weapon.multiShotCount = MULTI_SHOT_COUNT + 1

-----------------------------------------------------------------------------
(* Progression: kills, level-ups and the weapon's level *)

\* Calls per behaviour of the progression specification.
MaxProgressOps == 4

\* The player's level when the behaviour begins: the first two and the last
\* two.
ProgressLevels == {1, 2, MAX_LEVEL - 1, MAX_LEVEL}

\* The player at level lv with the experience of k kills short of the next
\* level (k < 0: beyond it, which only the last level allows).
PlayerAtLevel(lv, k) ==
    [NewPlayer EXCEPT !.level = lv, !.experience = lv * XP_PER_LEVEL - k * XP_PER_ENEMY]

\* The upgrade types Player.levelUp draws in the behaviours.
LevelUpDraws == {"damage", "pattern"}

NoProgress == [op |-> "new", levelUp |-> FALSE]

\* The player after the level-ups that lead to its level, one weapon upgrade
\* each, and some kills since.
InitProgress ==
    /\ obstacles = Obstacles
    /\ \E lv \in ProgressLevels, k \in {-1, 1, 2} :
          /\ k < 0 => lv = MAX_LEVEL
          /\ player = PlayerAtLevel(lv, k)
          /\ weapon = Upgraded(NewWeapon, "damage", lv - 1)
    /\ enemies = <<>>
    /\ spawnTimer = 0
    /\ projectiles = <<>>
    /\ keyLatch = [pattern |-> FALSE, upgrade |-> FALSE]
    /\ nextId = 1
    /\ hits = NoHits
    /\ last = NoProgress
    /\ steps = 0

\* A call player.addKill(), which calls gainExperience(XP_PER_ENEMY).
AddKillCall(upDraw) ==
    /\ steps < MaxProgressOps
    /\ \E r \in {AddKill(player, weapon, upDraw)} :
          /\ player' = r.player
          /\ weapon' = r.weapon
          /\ last' = [op |-> "addKill", levelUp |-> r.player.level # player.level]
    /\ steps' = steps + 1
    /\ UNCHANGED <<obstacles, enemies, spawnTimer, projectiles, keyLatch, nextId, hits>>

\* The upgrade('multiShot') call of the key E in Game.update.
ManualUpgradeCall ==
    /\ steps < MaxProgressOps
    /\ weapon' = Upgrade(weapon, "multiShot")
    /\ last' = [op |-> "upgrade", levelUp |-> FALSE]
    /\ steps' = steps + 1
    /\ UNCHANGED <<obstacles, player, enemies, spawnTimer, projectiles, keyLatch,
                   nextId, hits>>

NextProgress == (\E upDraw \in LevelUpDraws : AddKillCall(upDraw)) \/ ManualUpgradeCall

SpecProgress == InitProgress /\ [][NextProgress]_vars

\* The gainExperience(amount) call that takes player p and weapon w to q and
\* v: a level-up, by one level, exactly when the experience reaches
\* level * XP_PER_LEVEL below MAX_LEVEL; it resets the experience to 0 and
\* upgrades the weapon once.
GainsAsStated(p, w, q, v, amount) ==
    IF p.experience + amount >= p.level * XP_PER_LEVEL /\ p.level < MAX_LEVEL
    THEN q.level = p.level + 1 /\ q.experience = 0 /\ v.level = w.level + 1
    ELSE q.level = p.level /\ q.experience = p.experience + amount /\ v = w

\* C38: player.level never exceeds MAX_LEVEL and rises by at most 1 per
\* gainExperience call; a level-up happens exactly when experience reaches
\* level * XP_PER_LEVEL while level < MAX_LEVEL, resets experience to 0 and
\* calls weaponSystem.upgrade exactly once, so weaponSystem.level - 1 is
\* always at least player.level - 1.
C38_LevelUps ==
    /\ [](player.level <= MAX_LEVEL /\ weapon.level - 1 >= player.level - 1)
    /\ [][ last'.op = "addKill" =>
             GainsAsStated(player, weapon, player', weapon', XP_PER_ENEMY) ]_vars

\* The player has just reached MAX_LEVEL by a kill, after a kill at the level
\* below that brought no level-up.
C38_Witness ==
    /\ last.op = "addKill" /\ last.levelUp
    /\ player.level = MAX_LEVEL /\ player.experience = 0
    /\ player.killCount = 2
    /\ weapon.level = MAX_LEVEL

-----------------------------------------------------------------------------
(* Volleys: the update calls of a weapon system, some in long frames *)

\* Frame times (ms) of the updates: half and the whole of the time between
\* shots, and a frame in which a projectile flies 280 px, beyond its range.
VolleyDts == {250, 500, 700}

NextVolley == \E dt \in VolleyDts : WeaponUpdateCall(dt)

SpecVolley == InitWeapon /\ [][NextVolley]_vars

\* C39: a projectile created by fire() inside WeaponSystem.update is advanced
\* by speed * dt within that same update call; when speed * dt / 1000 >= range
\* in the firing frame it is removed in that call, so that no collision pass
\* is handed it; and after every update each projectile left in the
\* collection is active with distanceTraveled < range.
C39_FiredShotsAdvance ==
    /\ [](\A i \in 1..Len(projectiles) :
             /\ projectiles[i].active
             /\ projectiles[i].distanceTraveled < PROJECTILE_RANGE * POS_ONE)
    /\ [][ last'.op = "update" =>
             /\ \A i \in 1..Len(projectiles') :
                   projectiles'[i].id >= nextId =>
                      projectiles'[i].distanceTraveled
                         = (PROJECTILE_SPEED * last'.dt * POS_ONE) \div 1000
             /\ PROJECTILE_SPEED * last'.dt >= PROJECTILE_RANGE * 1000 =>
                   \A i \in 1..Len(projectiles') : projectiles'[i].id < nextId ]_vars

\* An update of 700 ms fired, and the collection is empty after it: the shot
\* flew its whole range within the call.
C39_Witness ==
    /\ last.op = "update" /\ last.dt = 700
    /\ last.called /\ last.fired > 0
    /\ projectiles = <<>>

====
